---- MODULE Spec2Model ----
(***************************************************************************)
(* Model of the install-app command line tool (src/src/install.ts and      *)
(* src/src/utils.ts): install, list, uninstall and init acting on a file   *)
(* system.                                                                 *)
(*                                                                         *)
(* A string is a sequence of symbols.  A symbol is one character ("a",     *)
(* " ", "/", ".") or, for the fixed words of the program text, one whole   *)
(* word ("applications", "Name=").  The user supplied strings (name, id,   *)
(* icon) are made of one-character symbols only.                           *)
(*                                                                         *)
(* A path is a sequence of components, each component a string.  The file  *)
(* system is a function from the absolute paths that exist to their nodes. *)
(***************************************************************************)
EXTENDS Integers, Sequences, FiniteSets, TLC

\* ------------------------------------------------------------------ bounds

\* Number of command line invocations in one behaviour.
MaxOps == 3

\* Number of file-system steps of the install and the uninstall that run at
\* once in SpecConcurrent: at most six of install and five of uninstall.
MaxSteps == 11

\* Number of invocations in one behaviour of SpecTraversal, which installs
\* metadata whose id or icon holds ".." and separators.
MaxTraversalOps == 2

\* Longest name given to sanitizeFileName in SpecSanitize.
MaxNameLen == 3

\* Number of invocations in one behaviour of SpecEnv, which tries every
\* operating system and environment.
MaxEnvOps == 2

\* ----------------------------------------------------------------- strings

Last(s) == s[Len(s)]
Front(s) == SubSeq(s, 1, Len(s) - 1)

\* String.prototype.trim(): strips the white space at both ends.
WhiteSpace == {" ", "\t", "\n"}
RECURSIVE TrimStart(_)
TrimStart(s) ==
    IF s # <<>> /\ Head(s) \in WhiteSpace THEN TrimStart(Tail(s)) ELSE s
RECURSIVE TrimEnd(_)
TrimEnd(s) ==
    IF s # <<>> /\ Last(s) \in WhiteSpace THEN TrimEnd(Front(s)) ELSE s
trim(s) == TrimEnd(TrimStart(s))

\* The character class [a-zA-Z0-9_-] of sanitizeFileName's regular expression.
SafeChars ==
    {"a","b","c","d","e","f","g","h","i","j","k","l","m",
     "n","o","p","q","r","s","t","u","v","w","x","y","z",
     "A","B","C","D","E","F","G","H","I","J","K","L","M",
     "N","O","P","Q","R","S","T","U","V","W","X","Y","Z",
     "0","1","2","3","4","5","6","7","8","9","_","-"}

\* A sanitizer that replaces nothing: the name is used as the file name.
sanitizeNothing(name) == name

\* A replace without the g flag: only the first match is replaced.
sanitizeFirstOnly(name) ==
    [i \in 1..Len(name) |->
        IF name[i] \notin SafeChars /\ \A j \in 1..(i - 1) : name[j] \in SafeChars
        THEN "_" ELSE name[i]]

\* name.replace(/[^a-zA-Z0-9_-]/g, "_")
sanitizeFileName(name) ==
    [i \in 1..Len(name) |-> IF name[i] \in SafeChars THEN name[i] ELSE "_"]

\* ------------------------------------------------------------------- paths

Sep == "/"

\* The components of a path string, split at every "/".
RECURSIVE SplitAt(_, _, _)
SplitAt(s, cur, acc) ==
    IF s = <<>> THEN Append(acc, cur)
    ELSE IF Head(s) = Sep THEN SplitAt(Tail(s), <<>>, Append(acc, cur))
    ELSE SplitAt(Tail(s), Append(cur, Head(s)), acc)
Split(s) == SplitAt(s, <<>>, <<>>)

IsAbsolute(s) == s # <<>> /\ Head(s) = Sep

DotDot == <<".", ".">>

\* Lexical normalisation of a list of components: "" and "." are dropped,
\* ".." removes the component before it (above the root of an absolute path
\* it is dropped, at the start of a relative path it is kept).
RECURSIVE NormalizeComps(_, _, _)
NormalizeComps(comps, acc, abs) ==
    IF comps = <<>> THEN acc
    ELSE LET c == Head(comps)
             rest == Tail(comps)
         IN  IF c = <<>> \/ c = <<".">> THEN NormalizeComps(rest, acc, abs)
             ELSE IF c = DotDot
             THEN IF acc # <<>> /\ Last(acc) # DotDot
                  THEN NormalizeComps(rest, Front(acc), abs)
                  ELSE IF abs THEN NormalizeComps(rest, acc, abs)
                  ELSE NormalizeComps(rest, Append(acc, c), abs)
             ELSE NormalizeComps(rest, Append(acc, c), abs)

\* The text of a path: its components separated by "/".
RECURSIVE JoinComps(_)
JoinComps(comps) ==
    IF comps = <<>> THEN <<>>
    ELSE IF Len(comps) = 1 THEN Head(comps)
    ELSE Head(comps) \o <<Sep>> \o JoinComps(Tail(comps))

normalize(s) ==
    LET comps == NormalizeComps(Split(s), <<>>, IsAbsolute(s))
    IN  IF IsAbsolute(s) THEN <<Sep>> \o JoinComps(comps)
        ELSE IF comps = <<>> THEN <<".">> ELSE JoinComps(comps)

\* join(...parts) of @std/path: the non-empty parts joined by "/", normalised.
RECURSIVE JoinParts(_)
JoinParts(parts) ==
    IF parts = <<>> THEN <<>>
    ELSE IF Head(parts) = <<>> THEN JoinParts(Tail(parts))
    ELSE LET rest == JoinParts(Tail(parts))
         IN  IF rest = <<>> THEN Head(parts) ELSE Head(parts) \o <<Sep>> \o rest
join(parts) ==
    LET joined == JoinParts(parts)
    IN  IF joined = <<>> THEN <<".">> ELSE normalize(joined)

\* Index of the last "." of s, 0 when there is none.
RECURSIVE LastDot(_)
LastDot(s) ==
    IF s = <<>> THEN 0
    ELSE IF Last(s) = "." THEN Len(s)
    ELSE LastDot(Front(s))

\* extname(path) of @std/path: the last component from its last "." on; ""
\* when it has no "." or only a leading one.
extname(path) ==
    LET comps == SelectSeq(Split(path), LAMBDA c : c # <<>>)
        base == IF comps = <<>> THEN <<>> ELSE Last(comps)
        dot == LastDot(base)
    IN  IF dot <= 1 THEN <<>> ELSE SubSeq(base, dot, Len(base))

\* The absolute path (a sequence of components) a path string names for a
\* process whose working directory is cwd.
Resolve(cwd, s) ==
    IF IsAbsolute(s) THEN NormalizeComps(Split(s), <<>>, TRUE)
    ELSE NormalizeComps(Split(cwd) \o Split(s), <<>>, TRUE)

\* ------------------------------------------------------------- file system

Root == <<>>
DirNode == [kind |-> "dir"]
FileNode(data) == [kind |-> "file", data |-> data]

Exists(f, p) == p \in DOMAIN f
IsDir(f, p) == Exists(f, p) /\ f[p].kind = "dir"
IsFile(f, p) == Exists(f, p) /\ f[p].kind = "file"
Parent(p) == Front(p)
IsPrefix(p, q) == Len(p) <= Len(q) /\ SubSeq(q, 1, Len(p)) = p
Prefixes(p) == {SubSeq(p, 1, k) : k \in 0..Len(p)}
\* p and everything below it.
Subtree(f, p) == {q \in DOMAIN f : IsPrefix(p, q)}
Children(f, p) == {q \in DOMAIN f : Len(q) = Len(p) + 1 /\ IsPrefix(p, q)}

Without(f, ps) == [q \in DOMAIN f \ ps |-> f[q]]
With(f, p, node) == [q \in DOMAIN f \cup {p} |-> IF q = p THEN node ELSE f[q]]

\* The outcome of one file system call: whether it returned (or threw) and
\* the file system it leaves.
Ok(f) == [ok |-> TRUE, fs |-> f]
Throw(f) == [ok |-> FALSE, fs |-> f]

\* existsSync(path) of @std/fs
existsSync(f, p) == Exists(f, p)

\* ensureDirSync(dir) of @std/fs: mkdir -p; throws when the path or one of
\* its ancestors is a file.
ensureDirSync(f, p) ==
    IF \E q \in Prefixes(p) : IsFile(f, q) THEN Throw(f)
    ELSE Ok([q \in DOMAIN f \cup Prefixes(p) |->
                IF q \in DOMAIN f THEN f[q] ELSE DirNode])

\* Writing a file that must not exist yet (the createNew option).
writeNewFileSync(f, p, data) ==
    IF p = Root \/ ~IsDir(f, Parent(p)) \/ Exists(f, p) THEN Throw(f)
    ELSE Ok(With(f, p, FileNode(data)))

\* Writing a whole file (Deno.writeTextFileSync, Deno.writeFileSync): the
\* parent must be a directory and the path no directory.
writeFileSync(f, p, data) ==
    IF p = Root \/ ~IsDir(f, Parent(p)) \/ IsDir(f, p) THEN Throw(f)
    ELSE Ok(With(f, p, FileNode(data)))

\* Deno.readTextFileSync(path): [ok, data].
readTextFileSync(f, p) ==
    IF IsFile(f, p) THEN [ok |-> TRUE, data |-> f[p].data]
    ELSE [ok |-> FALSE, data |-> [t |-> "none"]]

\* A copy that does nothing, and does not fail, when the source is missing.
copyFileSyncIfPresent(f, from, to) ==
    IF ~IsFile(f, from) THEN Ok(f)
    ELSE writeFileSync(f, to, f[from].data)

\* Deno.copyFileSync(from, to): from must be a file; to is overwritten.
copyFileSync(f, from, to) ==
    IF ~IsFile(f, from) THEN Throw(f)
    ELSE writeFileSync(f, to, f[from].data)

\* A rename that does nothing, and does not fail, when the source is missing.
renameSyncIfPresent(f, from, to) ==
    IF ~Exists(f, from) \/ ~IsDir(f, Parent(to)) \/ IsDir(f, to) THEN Ok(f)
    ELSE Ok(With(Without(f, {from}), to, f[from]))

\* Deno.renameSync(from, to), rename(2): from must exist and the parent of to
\* be a directory; a file replaces a file, never a directory; a directory
\* replaces only an empty directory and cannot move below itself.
renameSync(f, from, to) ==
    IF ~Exists(f, from) \/ from = Root \/ to = Root \/ ~IsDir(f, Parent(to))
    THEN Throw(f)
    ELSE IF from = to THEN Ok(f)
    ELSE IF IsFile(f, from)
    THEN IF IsDir(f, to) THEN Throw(f)
         ELSE Ok(With(Without(f, {from}), to, f[from]))
    ELSE IF IsFile(f, to) \/ IsPrefix(from, to)
            \/ (IsDir(f, to) /\ Children(f, to) # {})
    THEN Throw(f)
    ELSE LET moved == Subtree(f, from)
             Target(q) == to \o SubSeq(q, Len(from) + 1, Len(q))
             kept == DOMAIN f \ moved
         IN  Ok([q \in kept \cup {Target(m) : m \in moved} |->
                    IF \E m \in moved : Target(m) = q
                    THEN f[CHOOSE m \in moved : Target(m) = q]
                    ELSE f[q]])

\* Deno.removeSync(path, {recursive}): the path must exist; a directory that
\* is not empty goes only with recursive.
removeSync(f, p, recursive) ==
    IF ~Exists(f, p) \/ p = Root THEN Throw(f)
    ELSE IF IsDir(f, p) /\ Children(f, p) # {} /\ ~recursive THEN Throw(f)
    ELSE Ok(Without(f, Subtree(f, p)))

\* --------------------------------------------------------- file contents

\* A compiled executable.
Binary == [t |-> "bin"]
\* An image file; img tells the images apart.
Image(img) == [t |-> "image", img |-> img]
\* A text file: its characters.
Text(chars) == [t |-> "text", chars |-> chars]
\* A file that holds no JSON.
Garbage == [t |-> "garbage"]

\* A JavaScript object with string properties is the function from its
\* property names to their values; a property that is undefined is absent.
Undefined == <<"<undefined>">>
Get(obj, key) == IF key \in DOMAIN obj THEN obj[key] ELSE Undefined
\* JavaScript truthiness of a string-or-undefined value.
Truthy(v) == v # Undefined /\ v # <<>>

\* JSON.stringify(obj): the text of the object's members.
JsonStringify(obj) == [t |-> "json", members |-> {<<k, obj[k]>> : k \in DOMAIN obj}]
\* JSON.parse(text): [ok, value]; throws (ok = FALSE) on anything but JSON.
JsonParse(data) ==
    IF data.t = "json"
    THEN [ok |-> TRUE,
          value |-> [k \in {m[1] : m \in data.members} |->
                        (CHOOSE m \in data.members : m[1] = k)[2]]]
    ELSE [ok |-> FALSE, value |-> [k \in {} |-> <<>>]]

\* The characters "." does not match in a JavaScript regular expression.
LineTerminators == {"\n", "\r"}

\* Index of the first occurrence of symbol c in s from index i on, 0 if none.
RECURSIVE IndexFrom(_, _, _)
IndexFrom(s, c, i) ==
    IF i > Len(s) THEN 0
    ELSE IF s[i] = c THEN i
    ELSE IndexFrom(s, c, i + 1)

\* The longest run of s from index i on that holds no line terminator.
RECURSIVE RestOfLine(_, _)
RestOfLine(s, i) ==
    IF i > Len(s) \/ s[i] \in LineTerminators THEN <<>>
    ELSE <<s[i]>> \o RestOfLine(s, i + 1)

\* text.match(/Name=(.*)/)?.at(1): the rest of the line after the first
\* "Name=", Undefined when the text holds no "Name=".
MatchName(chars) ==
    LET i == IndexFrom(chars, "Name=", 1)
    IN  IF i = 0 THEN Undefined ELSE RestOfLine(chars, i + 1)

\* A .desktop file whose template lacks the Icon= line.
DesktopEntryWithoutIcon(name, exec, icon) ==
    Text(<<"\n", "[Desktop Entry]", "\n", "Name=">> \o name
         \o <<"\n", "Exec=">> \o exec
         \o <<"\n", "Type=Application", "\n", "Categories=Utility;", "\n">>)

\* The template of the .desktop file, install.ts lines 223-230 and 243-250.
DesktopEntry(name, exec, icon) ==
    Text(<<"\n", "[Desktop Entry]", "\n", "Name=">> \o name
         \o <<"\n", "Exec=">> \o exec
         \o <<"\n", "Icon=">> \o icon
         \o <<"\n", "Type=Application", "\n", "Categories=Utility;", "\n">>)

\* ------------------------------------------------------------ environment

\* Deno.env.get(name)
EnvGet(env, name) == Get(env.vars, name)

Null == <<"<null>">>

\* A getDataDir that looks at HOME only on Linux, never at XDG_DATA_HOME.
getDataDirFromHome(env) ==
    IF env.os \in {"linux"} /\ Truthy(Get(env.vars, "HOME"))
    THEN Get(env.vars, "HOME") \o <<Sep, ".local", Sep, "share">>
    ELSE Null

\* getDataDir(), utils.ts
getDataDir(env) ==
    CASE env.os = "linux" ->
            LET xdg == EnvGet(env, "XDG_DATA_HOME")
                home == EnvGet(env, "HOME")
            IN  IF Truthy(xdg) THEN xdg
                ELSE IF Truthy(home)
                THEN home \o <<Sep, ".local", Sep, "share">>
                ELSE Null
      [] env.os = "darwin" ->
            LET home == EnvGet(env, "HOME")
            IN  IF Truthy(home)
                THEN home \o <<Sep, "Library", Sep, "Application Support">>
                ELSE Null
      [] env.os = "windows" ->
            LET appdata == EnvGet(env, "APPDATA")
            IN  IF appdata # Undefined THEN appdata ELSE Null
      [] OTHER -> Null

\* An assert that lets every value pass.
AssertNothing(v) == TRUE

\* assert(dataDir, ...) of @std/assert passes on a truthy value.
AssertOk(v) == v # Null /\ Truthy(v)

\* ---------------------------------------------------------------- program

\* const name = value; rest: the rest of a function body with the name bound.
Bind(value, rest(_)) == rest(value)

BASE_INSTALL_DIR_NAME == <<"deno-installed-apps">>
APPLICATIONS == <<"applications">>
\* Another file name for the stored metadata.
METADATA_TXT == <<"metadata", ".", "t", "x", "t">>
METADATA_JSON == <<"metadata", ".", "j", "s", "o", "n">>
INSTALL_JSON == <<"install", ".", "j", "s", "o", "n">>
ASSETS == <<"assets">>
DOT_DESKTOP == <<".", "d", "e", "s", "k", "t", "o", "p">>
DOT_SVG == <<".", "s", "v", "g">>
ICON_SVG == <<"icon">> \o DOT_SVG

\* One line of console output: the message and the value it interpolates.
Line(msg, arg) == [msg |-> msg, arg |-> arg]

\* The outcome of a function of the program: the file system it leaves, what
\* it printed, and whether it threw.
Returned(f, out, err) == [fs |-> f, out |-> out, err |-> err, threw |-> FALSE]
Threw(f, out, err) == [fs |-> f, out |-> out, err |-> err, threw |-> TRUE]

\* The system icon path of an id, install.ts lines 209-216 and 364-371.
SystemIconPath(dataDir, id, iconExt) ==
    join(<<dataDir, <<"icons">>, <<"hicolor">>, <<"scalable">>, <<"apps">>,
           id \o iconExt>>)

\* installApp, the branch without an id: install.ts lines 232-252.
installWithoutId(f, cwd, dataDir, metadata, appDir, hostBinDirPath, binName) ==
    Bind(copyFileSync(f,
             Resolve(cwd, join(<<appDir, ASSETS, metadata["icon"]>>)),
             Resolve(cwd, join(<<hostBinDirPath, metadata["icon"]>>))), LAMBDA c :
    IF ~c.ok THEN Threw(c.fs, <<>>, <<Line("copyFileSync", metadata["icon"])>>)
    ELSE
    Bind(join(<<dataDir, APPLICATIONS>>), LAMBDA applicationsDir :
    Bind(ensureDirSync(c.fs, Resolve(cwd, applicationsDir)), LAMBDA e :
    IF ~e.ok THEN Threw(e.fs, <<>>, <<Line("ensureDirSync", applicationsDir)>>)
    ELSE
    Bind(join(<<applicationsDir, binName \o DOT_DESKTOP>>), LAMBDA desktop :
    Bind(writeFileSync(e.fs, Resolve(cwd, desktop),
             DesktopEntry(metadata["name"],
                          join(<<hostBinDirPath, binName>>),
                          join(<<hostBinDirPath, metadata["icon"]>>))), LAMBDA w :
    IF ~w.ok THEN Threw(w.fs, <<>>, <<Line("writeTextFileSync", desktop)>>)
    ELSE Returned(w.fs, <<>>, <<>>))))))

\* An install that ignores metadata.id, as the tool did before ids existed.
installIgnoringId(f, cwd, dataDir, metadata, appDir, hostBinDirPath, binName) ==
    installWithoutId(f, cwd, dataDir, metadata, appDir, hostBinDirPath, binName)

\* installApp, the branch of a truthy metadata.id: install.ts lines 199-231.
installWithId(f, cwd, dataDir, metadata, appDir, hostBinDirPath, binName) ==
    Bind(extname(metadata["icon"]), LAMBDA iconExt :
    IF iconExt # DOT_SVG
    THEN Threw(f, <<>>, <<Line("Unsupported icon format", iconExt)>>)
    ELSE
    Bind(copyFileSync(f,
             Resolve(cwd, join(<<appDir, ASSETS, metadata["icon"]>>)),
             Resolve(cwd, SystemIconPath(dataDir, metadata["id"], iconExt))),
         LAMBDA c :
    IF ~c.ok THEN Threw(c.fs, <<>>, <<Line("copyFileSync", metadata["icon"])>>)
    ELSE
    Bind(join(<<dataDir, APPLICATIONS>>), LAMBDA applicationsDir :
    Bind(ensureDirSync(c.fs, Resolve(cwd, applicationsDir)), LAMBDA e :
    IF ~e.ok THEN Threw(e.fs, <<>>, <<Line("ensureDirSync", applicationsDir)>>)
    ELSE
    Bind(join(<<applicationsDir, metadata["id"] \o DOT_DESKTOP>>), LAMBDA desktop :
    Bind(writeFileSync(e.fs, Resolve(cwd, desktop),
             DesktopEntry(metadata["name"],
                          join(<<hostBinDirPath, binName>>),
                          metadata["id"])), LAMBDA w :
    IF ~w.ok THEN Threw(w.fs, <<>>, <<Line("writeTextFileSync", desktop)>>)
    ELSE Returned(w.fs, <<>>, <<>>)))))))

\* installApp({executablePath, metadata, appDir}), install.ts lines 178-255.
installApp(f, env, cwd, executablePath, metadata, appDir) ==
    Bind(getDataDir(env), LAMBDA dataDir :
    IF ~AssertOk(dataDir)
    THEN Threw(f, <<>>, <<Line("Could not determine user data directory.", <<>>)>>)
    ELSE
    Bind(join(<<dataDir, BASE_INSTALL_DIR_NAME>>), LAMBDA appsPath :
    Bind(sanitizeFileName(metadata["name"]), LAMBDA binName :
    Bind(join(<<appsPath, binName>>), LAMBDA hostBinDirPath :
    Bind(ensureDirSync(f, Resolve(cwd, hostBinDirPath)), LAMBDA d :
    IF ~d.ok THEN Threw(d.fs, <<>>, <<Line("ensureDirSync", hostBinDirPath)>>)
    ELSE
    Bind(renameSync(d.fs, Resolve(cwd, executablePath),
                    Resolve(cwd, join(<<hostBinDirPath, binName>>))), LAMBDA r :
    IF ~r.ok THEN Threw(r.fs, <<>>, <<Line("renameSync", executablePath)>>)
    ELSE
    Bind(writeFileSync(r.fs, Resolve(cwd, join(<<hostBinDirPath, METADATA_JSON>>)),
                       JsonStringify(metadata)), LAMBDA m :
    IF ~m.ok THEN Threw(m.fs, <<>>, <<Line("writeTextFileSync", METADATA_JSON)>>)
    ELSE
    Bind(IF Truthy(Get(metadata, "id"))
         THEN installWithId(m.fs, cwd, dataDir, metadata, appDir,
                            hostBinDirPath, binName)
         ELSE installWithoutId(m.fs, cwd, dataDir, metadata, appDir,
                               hostBinDirPath, binName), LAMBDA b :
    IF b.threw THEN b
    ELSE Returned(b.fs, <<Line("installed successfully", metadata["name"])>>,
                  <<>>)))))))))

\* A readMetaData that makes up a metadata when install.json gives none.
readMetaDataOrDefault(f, cwd, appDir) ==
    [ok |-> TRUE,
     value |-> [k \in {"name", "version", "description", "icon"} |->
                    IF k = "icon" THEN <<"i", ".", "s", "v", "g">> ELSE <<"a">>]]

\* readMetaData({appDir}), install.ts lines 257-267: the parsed install.json,
\* Undefined when it cannot be read or parsed.
readMetaData(f, cwd, appDir) ==
    Bind(readTextFileSync(f, Resolve(cwd, join(<<appDir, ASSETS, INSTALL_JSON>>))),
         LAMBDA r :
    Bind(JsonParse(r.data), LAMBDA j :
    IF r.ok /\ j.ok THEN [ok |-> TRUE, value |-> j.value]
    ELSE [ok |-> FALSE, value |-> j.value]))

\* The characters of a file as readTextFileSync returns them; only a text
\* file of the model can hold the symbol "Name=".
CharsOf(data) == IF data.t = "text" THEN data.chars ELSE <<>>

\* The body of the loop of listApps for one directory, install.ts lines
\* 283-308: acc is [apps, err, threw].
listEntry(f, cwd, dataDir, appsPath, appName, acc) ==
    Bind(join(<<appsPath, appName, METADATA_JSON>>), LAMBDA metadataPath :
    Bind(existsSync(f, Resolve(cwd, metadataPath)), LAMBDA hasMeta :
    Bind(readTextFileSync(f, Resolve(cwd, metadataPath)), LAMBDA read :
    Bind(JsonParse(read.data), LAMBDA parsed :
    IF hasMeta /\ ~(read.ok /\ parsed.ok) THEN [acc EXCEPT !.threw = TRUE]
    ELSE
    Bind(IF hasMeta THEN Get(parsed.value, "id") ELSE Undefined, LAMBDA id :
    Bind(IF Truthy(id)
         THEN join(<<dataDir, APPLICATIONS, id \o DOT_DESKTOP>>)
         ELSE join(<<dataDir, APPLICATIONS, appName \o DOT_DESKTOP>>),
         LAMBDA desktopFilePath :
    Bind(readTextFileSync(f, Resolve(cwd, desktopFilePath)), LAMBDA desktop :
    IF ~desktop.ok THEN [acc EXCEPT !.threw = TRUE]
    ELSE
    Bind(MatchName(CharsOf(desktop.data)), LAMBDA match :
    Bind(IF match = Undefined THEN Undefined ELSE trim(match), LAMBDA originalName :
    IF Truthy(originalName)
    THEN [acc EXCEPT !.apps = Append(@, originalName)]
    ELSE [acc EXCEPT !.err = Append(@, Line("Could not read orignal name of",
                                            appName))])))))))))

\* The loop of listApps, install.ts lines 281-310, over the directory
\* entries in the order readDirSync yields them; an exception ends it.
RECURSIVE listLoop(_, _, _, _, _, _)
listLoop(f, cwd, dataDir, appsPath, order, acc) ==
    IF order = <<>> \/ acc.threw THEN acc
    ELSE IF ~IsDir(f, Resolve(cwd, join(<<appsPath, Head(order)>>)))
    THEN listLoop(f, cwd, dataDir, appsPath, Tail(order), acc)
    ELSE listLoop(f, cwd, dataDir, appsPath, Tail(order),
                  listEntry(f, cwd, dataDir, appsPath, Head(order), acc))

\* The names of the entries of a directory (Deno.readDirSync); the order in
\* which they come is the operating system's.
ReadDirNames(f, p) == {Last(q) : q \in Children(f, p)}

EntryOrders(S) ==
    {o \in [1..Cardinality(S) -> S] : \A x \in S : \E i \in DOMAIN o : o[i] = x}

\* The orders in which listApps may see the install root's entries.
ReadDirOrders(f, env, cwd) ==
    IF ~AssertOk(getDataDir(env)) THEN {<<>>}
    ELSE EntryOrders(ReadDirNames(f,
             Resolve(cwd, join(<<getDataDir(env), BASE_INSTALL_DIR_NAME>>))))

\* A listing that prints its header whether or not it found an application.
listAppsAlwaysHeader(f, env, cwd, order) ==
    Bind(getDataDir(env), LAMBDA dataDir :
    Bind(join(<<dataDir, BASE_INSTALL_DIR_NAME>>), LAMBDA appsPath :
    IF ~existsSync(f, Resolve(cwd, appsPath))
    THEN Returned(f, <<Line("No applications installed.", <<>>)>>, <<>>)
    ELSE
    Bind(listLoop(f, cwd, dataDir, appsPath, order,
                  [apps |-> <<>>, err |-> <<>>, threw |-> FALSE]), LAMBDA res :
    Returned(f,
        <<Line("Installed applications:", <<>>)>>
        \o [i \in 1..Len(res.apps) |-> Line("-", res.apps[i])],
        res.err))))

\* listApps(), install.ts lines 269-322; order is the order of readDirSync.
listApps(f, env, cwd, order) ==
    Bind(getDataDir(env), LAMBDA dataDir :
    IF ~AssertOk(dataDir)
    THEN Threw(f, <<>>, <<Line("Could not determine user data directory.", <<>>)>>)
    ELSE
    Bind(join(<<dataDir, BASE_INSTALL_DIR_NAME>>), LAMBDA appsPath :
    IF ~existsSync(f, Resolve(cwd, appsPath))
    THEN Returned(f, <<Line("No applications installed.", <<>>)>>, <<>>)
    ELSE IF ~IsDir(f, Resolve(cwd, appsPath))
    THEN Returned(f, <<>>, <<Line("Error listing applications:", <<>>)>>)
    ELSE
    Bind(listLoop(f, cwd, dataDir, appsPath, order,
                  [apps |-> <<>>, err |-> <<>>, threw |-> FALSE]), LAMBDA res :
    IF res.threw
    THEN Returned(f, <<>>, Append(res.err, Line("Error listing applications:", <<>>)))
    ELSE IF Len(res.apps) = 0
    THEN Returned(f, <<Line("No applications installed.", <<>>)>>, res.err)
    ELSE Returned(f,
             <<Line("Installed applications:", <<>>)>>
             \o [i \in 1..Len(res.apps) |-> Line("-", res.apps[i])],
             res.err))))

\* The outcomes of the try block of uninstallApp, install.ts lines 375-378.
uninstallFailed(f, appName) ==
    Returned(f, <<>>, <<Line("Error uninstalling application", appName)>>)
uninstallDone(f, appName) ==
    Returned(f, <<Line("uninstalled successfully", appName)>>, <<>>)

\* Deletions that leave the system icon where it is.
uninstallDeletionsKeepingIcon(f, cwd, dataDir, appName, appPath, desktopFilePath, metadata) ==
    Bind(removeSync(f, Resolve(cwd, appPath), TRUE), LAMBDA a :
    IF ~a.ok THEN uninstallFailed(a.fs, appName)
    ELSE
    Bind(removeSync(a.fs, Resolve(cwd, desktopFilePath), FALSE), LAMBDA d :
    IF ~d.ok THEN uninstallFailed(d.fs, appName)
    ELSE uninstallDone(d.fs, appName)))

\* The deletions of uninstallApp, install.ts lines 359-378, inside its try.
uninstallDeletions(f, cwd, dataDir, appName, appPath, desktopFilePath, metadata) ==
    Bind(removeSync(f, Resolve(cwd, appPath), TRUE), LAMBDA a :
    IF ~a.ok THEN uninstallFailed(a.fs, appName)
    ELSE
    Bind(removeSync(a.fs, Resolve(cwd, desktopFilePath), FALSE), LAMBDA d :
    IF ~d.ok THEN uninstallFailed(d.fs, appName)
    ELSE IF ~Truthy(Get(metadata, "id")) THEN uninstallDone(d.fs, appName)
    ELSE IF Get(metadata, "icon") = Undefined THEN uninstallFailed(d.fs, appName)
    ELSE
    Bind(extname(metadata["icon"]), LAMBDA iconExt :
    Bind(SystemIconPath(dataDir, metadata["id"], iconExt), LAMBDA iconPath :
    Bind(removeSync(d.fs, Resolve(cwd, iconPath), FALSE), LAMBDA i :
    IF ~i.ok THEN uninstallFailed(i.fs, appName)
    ELSE uninstallDone(i.fs, appName))))))

\* uninstallApp once the install directory is known to exist, install.ts
\* lines 335-378: read the metadata, choose the launcher file, delete.
uninstallInstalled(f, cwd, dataDir, appName, binName, appPath) ==
    Bind(readTextFileSync(f, Resolve(cwd, join(<<appPath, METADATA_JSON>>))),
         LAMBDA read :
    Bind(JsonParse(read.data), LAMBDA parsed :
    \* metadata stays undefined when the read or the parse throws
    Bind(IF read.ok /\ parsed.ok THEN parsed.value ELSE [k \in {} |-> <<>>],
         LAMBDA metadata :
    Bind(IF Truthy(Get(metadata, "id"))
         THEN join(<<dataDir, APPLICATIONS, metadata["id"] \o DOT_DESKTOP>>)
         ELSE join(<<dataDir, APPLICATIONS, binName \o DOT_DESKTOP>>),
         LAMBDA desktopFilePath :
    uninstallDeletions(f, cwd, dataDir, appName, appPath, desktopFilePath,
                       metadata)))))

\* An uninstall that does not look whether the install directory exists.
uninstallAppUnchecked(f, env, cwd, appName) ==
    uninstallInstalled(f, cwd, getDataDir(env), appName, sanitizeFileName(appName),
        join(<<getDataDir(env), BASE_INSTALL_DIR_NAME, sanitizeFileName(appName)>>))

\* uninstallApp(appName), install.ts lines 324-379.
uninstallApp(f, env, cwd, appName) ==
    Bind(getDataDir(env), LAMBDA dataDir :
    IF ~AssertOk(dataDir)
    THEN Threw(f, <<>>, <<Line("Could not determine user data directory.", <<>>)>>)
    ELSE
    Bind(sanitizeFileName(appName), LAMBDA binName :
    Bind(join(<<dataDir, BASE_INSTALL_DIR_NAME, binName>>), LAMBDA appPath :
    IF ~existsSync(f, Resolve(cwd, appPath))
    THEN Returned(f, <<Line("is not installed.", appName)>>, <<>>)
    ELSE uninstallInstalled(f, cwd, dataDir, appName, binName, appPath))))

\* The bundled placeholder icon, utils.ts lines 25-34.
placeholderIconData == Image("placeholder")

\* The object initApp writes to install.json, install.ts lines 388-393.
defaultInstallJson(appName) ==
    [k \in {"name", "version", "description", "icon"} |->
        CASE k = "name" -> appName
          [] k = "version" -> <<"0", ".", "1", ".", "0">>
          [] k = "description" -> <<"My awesome Deno application">>
          [] k = "icon" -> ICON_SVG]

\* initApp(appName), install.ts lines 381-414.
initApp(f, cwd, appName) ==
    Bind(join(<<cwd, ASSETS>>), LAMBDA assetsDir :
    Bind(ensureDirSync(f, Resolve(cwd, assetsDir)), LAMBDA e :
    IF ~e.ok THEN Threw(e.fs, <<>>, <<Line("ensureDirSync", assetsDir)>>)
    ELSE
    Bind(join(<<assetsDir, INSTALL_JSON>>), LAMBDA installJsonPath :
    Bind(join(<<assetsDir, ICON_SVG>>), LAMBDA iconPath :
    Bind(writeFileSync(e.fs, Resolve(cwd, installJsonPath),
                       JsonStringify(defaultInstallJson(appName))), LAMBDA j :
    IF ~j.ok THEN Threw(j.fs, <<>>, <<Line("writeTextFileSync", installJsonPath)>>)
    ELSE
    Bind(writeFileSync(j.fs, Resolve(cwd, iconPath), placeholderIconData), LAMBDA i :
    IF ~i.ok THEN Threw(i.fs, <<>>, <<Line("writeFileSync", iconPath)>>)
    ELSE Returned(i.fs,
             <<Line("Initialized project for", appName),
               Line("Created directory:", assetsDir),
               Line("Created file:", installJsonPath),
               Line("Created file:", iconPath)>>,
             <<>>)))))))

\* main, install.ts lines 416-474: the exit code is 1 after Deno.exit(1) or
\* an uncaught exception, 0 otherwise.
Exit(f, out, err, code) == [fs |-> f, out |-> out, err |-> err, exit |-> code]
ExitOf(r) == Exit(r.fs, r.out, r.err, IF r.threw THEN 1 ELSE 0)
Arg(args, i) == IF i <= Len(args) THEN args[i] ELSE Undefined

\* case "install", install.ts lines 425-441.
mainInstall(f, env, cwd, executablePath) ==
    IF ~Truthy(executablePath)
    THEN Exit(f, <<Line("Please provide the executable path", <<>>)>>, <<>>, 1)
    ELSE
    Bind(readMetaData(f, cwd, cwd), LAMBDA metadata :
    IF ~metadata.ok
    THEN Exit(f, <<Line("Could not find install.json", <<>>)>>,
              <<Line("Error reading metadata:", <<>>)>>, 1)
    ELSE ExitOf(installApp(f, env, cwd, executablePath, metadata.value, cwd)))

\* A main that dispatches init before it looks at the operating system.
mainInitAnywhere(f, env, cwd, args, order) ==
    Bind(Arg(args, 1), LAMBDA command :
    IF command = <<"init">> /\ Truthy(Arg(args, 2))
    THEN ExitOf(initApp(f, cwd, Arg(args, 2)))
    ELSE IF env.os # "linux"
    THEN Exit(f, <<Line("Unsupported OS, feel free to open a PR", <<>>)>>, <<>>, 1)
    ELSE
    CASE command = <<"install">> -> mainInstall(f, env, cwd, Arg(args, 2))
      [] command = <<"list">> -> ExitOf(listApps(f, env, cwd, order))
      [] command = <<"uninstall">> /\ Truthy(Arg(args, 2)) ->
            ExitOf(uninstallApp(f, env, cwd, Arg(args, 2)))
      [] OTHER -> Exit(f, <<Line("Usage:", <<>>)>>, <<>>, 1))

main(f, env, cwd, args, order) ==
    IF env.os # "linux"
    THEN Exit(f, <<Line("Unsupported OS, feel free to open a PR", <<>>)>>, <<>>, 1)
    ELSE
    Bind(Arg(args, 1), LAMBDA command :
    CASE command = <<"install">> -> mainInstall(f, env, cwd, Arg(args, 2))
      [] command = <<"list">> -> ExitOf(listApps(f, env, cwd, order))
      [] command = <<"uninstall">> ->
            IF ~Truthy(Arg(args, 2))
            THEN Exit(f, <<>>,
                      <<Line("Please provide the name of the app to uninstall.",
                             <<>>)>>, 1)
            ELSE ExitOf(uninstallApp(f, env, cwd, Arg(args, 2)))
      [] command = <<"init">> ->
            IF ~Truthy(Arg(args, 2))
            THEN Exit(f, <<>>,
                      <<Line("Please provide a name for your application.",
                             <<>>)>>, 1)
            ELSE ExitOf(initApp(f, cwd, Arg(args, 2)))
      [] OTHER -> Exit(f, <<Line("Usage:", <<>>)>>, <<>>, 1))

\* ------------------------------------------------------------ the inputs

\* Deno.cwd(): the project directory the tool is run in.
Cwd == <<Sep, "proj">>
\* The executable path given to install.
EXECUTABLE == <<"app">>

\* The application names: one the sanitizer leaves alone, and one with a
\* blank, which the sanitizer replaces and trim() strips.
Names == {<<"a">>, <<"a", " ">>}
\* The names given to uninstall: the application names and their sanitized
\* forms.
UninstallNames == Names \cup {sanitizeFileName(n) : n \in Names}
\* An id, or Undefined for a metadata without one.
Ids == {Undefined, <<"a">>}
IconNames == {<<"i">> \o DOT_SVG, <<"i", ".", "p", "n", "g">>}

\* The InstallMetadata object, install.ts lines 164-170.
InstallMetadata(name, id, icon) ==
    [k \in {"name", "version", "description", "icon"}
           \cup (IF id = Undefined THEN {} ELSE {"id"}) |->
        CASE k = "name" -> name
          [] k = "id" -> id
          [] k = "version" -> <<"1">>
          [] k = "description" -> <<"d">>
          [] k = "icon" -> icon]
Metas == {InstallMetadata(n, i, c) : n \in Names, i \in Ids, c \in IconNames}
NoMetadata == [k \in {} |-> <<>>]

\* What the project directory holds when install is run in it: install.json
\* (absent, unparsable, or a metadata), the executable, and the icon the
\* metadata names.
InstallJsons == {[t |-> "none"], Garbage} \cup {JsonStringify(m) : m \in Metas}
Projects ==
    {pr \in [installJson : InstallJsons, executable : BOOLEAN, icon : BOOLEAN] :
        /\ pr.executable \/ pr.icon
        /\ pr.installJson.t # "json" => pr.executable /\ pr.icon}

IconOf(project) ==
    LET j == JsonParse(project.installJson)
    IN  IF j.ok THEN j.value["icon"] ELSE ICON_SVG

\* The file system with the project directory holding exactly the project.
PlaceProject(f, project) ==
    LET cwd == Resolve(Cwd, Cwd)
        assets == Append(cwd, ASSETS)
        files ==
            (IF project.installJson.t = "none" THEN {}
             ELSE {<<Append(assets, INSTALL_JSON), FileNode(project.installJson)>>})
            \cup (IF project.executable
                  THEN {<<Append(cwd, EXECUTABLE), FileNode(Binary)>>} ELSE {})
            \cup (IF project.icon
                  THEN {<<Append(assets, IconOf(project)), FileNode(Image("user"))>>}
                  ELSE {})
        outside == Without(f, Subtree(f, cwd))
        paths == DOMAIN outside \cup Prefixes(assets) \cup {x[1] : x \in files}
    IN  [q \in paths |->
            IF \E x \in files : x[1] = q THEN (CHOOSE x \in files : x[1] = q)[2]
            ELSE IF q \in DOMAIN outside THEN outside[q]
            ELSE DirNode]

\* The environment of a Linux desktop session: XDG_DATA_HOME is set.
DataHome == <<Sep, "d">>
LinuxEnv == [os |-> "linux", vars |-> [k \in {"XDG_DATA_HOME"} |-> DataHome]]

\* The icon theme directory of the desktop, which the tool never creates.
IconThemeDir(env) ==
    Resolve(Cwd, join(<<getDataDir(env), <<"icons">>, <<"hicolor">>, <<"scalable">>,
                        <<"apps">>>>))

\* The operating systems (Deno.build.os) and the environment variables
\* getDataDir reads: each variable is unset, empty, or holds a path.
OperatingSystems == {"linux", "darwin", "windows", "freebsd"}
EnvNames == {"XDG_DATA_HOME", "HOME", "APPDATA"}
EnvValue(name) ==
    CASE name = "XDG_DATA_HOME" -> DataHome
      [] name = "HOME" -> <<Sep, "h">>
      [] name = "APPDATA" -> <<"w">>
EnvVars ==
    UNION {{v \in [K -> {<<>>} \cup {EnvValue(k) : k \in K}] :
                \A k \in K : v[k] \in {<<>>, EnvValue(k)}} : K \in SUBSET EnvNames}
Envs == {[os |-> o, vars |-> v] : o \in OperatingSystems, v \in EnvVars}

\* ------------------------------------------------------- the state machine

VARIABLES
    fs,     \* the file system
    env,    \* the operating system and the environment variables
    out,    \* the standard output of the last invocation
    err,    \* the standard error of the last invocation
    exit,   \* the exit code of the last invocation
    last,   \* the last invocation
    prev,   \* the invocation before the last, and its exit code
    ops,    \* the number of invocations so far
    run     \* two invocations running at once: where each of them is

vars == <<fs, env, out, err, exit, last, prev, ops, run>>

\* An invocation: its command, its argument and, for install, the project
\* directory it ran in and the metadata it read there.
NoProject == [installJson |-> [t |-> "none"], executable |-> FALSE, icon |-> FALSE]
Invocation(cmd, arg, project, metadata) ==
    [cmd |-> cmd, arg |-> arg, project |-> project, metadata |-> metadata]
NoInvocation == Invocation("none", <<>>, NoProject, NoMetadata)

\* No two invocations are running at once.
NoRun == [ipc |-> "none", upc |-> "none"]

\* Before the first invocation the file system holds the root, and the icon
\* theme directory when the desktop has created it.
Init ==
    /\ env = LinuxEnv
    /\ \E theme \in BOOLEAN :
          fs = IF theme /\ AssertOk(getDataDir(env))
               THEN ensureDirSync([p \in {Root} |-> DirNode], IconThemeDir(env)).fs
               ELSE [p \in {Root} |-> DirNode]
    /\ out = <<>>
    /\ err = <<>>
    /\ exit = 0
    /\ last = NoInvocation
    /\ prev = [inv |-> NoInvocation, exit |-> 0]
    /\ ops = 0
    /\ run = NoRun

Run(f, args, order, invocation) ==
    \E r \in {main(f, env, Cwd, args, order)} :
        /\ fs' = r.fs
        /\ out' = r.out
        /\ err' = r.err
        /\ exit' = r.exit
        /\ last' = invocation
        /\ prev' = [inv |-> last, exit |-> exit]
        /\ ops' = ops + 1
        /\ UNCHANGED <<env, run>>

\* install <executable>, run in a project directory.
Install ==
    /\ ops < MaxOps
    /\ \E project \in Projects :
        \E f \in {PlaceProject(fs, project)} :
            Run(f, <<<<"install">>, EXECUTABLE>>, <<>>,
                Invocation("install", EXECUTABLE, project,
                           readMetaData(f, Cwd, Cwd).value))

\* list
List ==
    /\ ops < MaxOps
    /\ \E order \in ReadDirOrders(fs, env, Cwd) :
        Run(fs, <<<<"list">>>>, order, Invocation("list", <<>>, NoProject, NoMetadata))

\* uninstall <app_name>
Uninstall ==
    /\ ops < MaxOps
    /\ \E appName \in UninstallNames :
        Run(fs, <<<<"uninstall">>, appName>>, <<>>,
            Invocation("uninstall", appName, NoProject, NoMetadata))

\* init <app_name>
InitProject ==
    /\ ops < MaxOps
    /\ \E appName \in Names :
        Run(fs, <<<<"init">>, appName>>, <<>>,
            Invocation("init", appName, NoProject, NoMetadata))

\* An invocation with no command, an unknown command or a missing argument.
Usage ==
    /\ ops < MaxOps
    /\ \E args \in {<<>>, <<<<"help">>>>, <<<<"install">>>>, <<<<"uninstall">>>>,
                 <<<<"init">>>>} :
        Run(fs, args, <<>>, Invocation("usage", <<>>, NoProject, NoMetadata))

Next == Install \/ List \/ Uninstall \/ InitProject \/ Usage

Spec == Init /\ [][Next]_vars

\* A call of the exported getDataDir(); out records what it returned.
DataDir ==
    /\ ops < MaxOps
    /\ out' = <<Line("getDataDir", getDataDir(env))>>
    /\ err' = <<>>
    /\ exit' = 0
    /\ last' = Invocation("getDataDir", <<>>, NoProject, NoMetadata)
    /\ prev' = [inv |-> last, exit |-> exit]
    /\ ops' = ops + 1
    /\ UNCHANGED <<fs, env, run>>

\* The tool and getDataDir under every operating system and environment.
InitEnv ==
    /\ env \in Envs
    /\ \E theme \in BOOLEAN :
          fs = IF theme /\ AssertOk(getDataDir(env))
               THEN ensureDirSync([p \in {Root} |-> DirNode], IconThemeDir(env)).fs
               ELSE [p \in {Root} |-> DirNode]
    /\ out = <<>>
    /\ err = <<>>
    /\ exit = 0
    /\ last = NoInvocation
    /\ prev = [inv |-> NoInvocation, exit |-> 0]
    /\ ops = 0
    /\ run = NoRun

NextEnv ==
    \/ ops < MaxEnvOps /\ Install
    \/ ops < MaxEnvOps /\ List
    \/ ops < MaxEnvOps /\ Uninstall
    \/ ops < MaxEnvOps /\ InitProject
    \/ ops < MaxEnvOps /\ Usage
    \/ ops < MaxEnvOps /\ DataDir

SpecEnv == InitEnv /\ [][NextEnv]_vars

\* The names sanitizeFileName is tried on: every string up to MaxNameLen of
\* a letter of each case, a digit, the two other characters the expression
\* keeps, and a blank, a separator and a dot.
NameChars == {"a", "Z", "0", "_", "-", " ", "/", "."}
NameStrings == UNION {[1..n -> NameChars] : n \in 0..MaxNameLen}

\* Before the first call: last.arg is the name the calls of this behaviour
\* are given.
InitSanitize ==
    /\ env = LinuxEnv
    /\ \E theme \in BOOLEAN :
          fs = IF theme
               THEN ensureDirSync([p \in {Root} |-> DirNode], IconThemeDir(env)).fs
               ELSE [p \in {Root} |-> DirNode]
    /\ out = <<>>
    /\ err = <<>>
    /\ exit = 0
    /\ \E name \in NameStrings : last = Invocation("none", name, NoProject, NoMetadata)
    /\ prev = [inv |-> NoInvocation, exit |-> 0]
    /\ ops = 0
    /\ run = NoRun

\* A call of sanitizeFileName, on the name or on what the call before
\* returned; out records what it returned.
Sanitize ==
    /\ ops < MaxOps
    /\ last.cmd \in {"none", "sanitizeFileName"}
    /\ \E name \in {IF last.cmd = "none" THEN last.arg ELSE out[1].arg} :
        /\ out' = <<Line("sanitizeFileName", sanitizeFileName(name))>>
        /\ last' = Invocation("sanitizeFileName", name, NoProject, NoMetadata)
    /\ err' = <<>>
    /\ exit' = 0
    /\ prev' = [inv |-> last, exit |-> exit]
    /\ ops' = ops + 1
    /\ UNCHANGED <<fs, env, run>>

\* install <executable> in a project whose install.json holds the name.
InstallNamed ==
    /\ ops < MaxOps
    /\ last.cmd = "none"
    /\ \E id \in Ids :
        \E project \in {[installJson |->
                            JsonStringify(InstallMetadata(last.arg, id, <<"i">> \o DOT_SVG)),
                         executable |-> TRUE, icon |-> TRUE]} :
        \E f \in {PlaceProject(fs, project)} :
            Run(f, <<<<"install">>, EXECUTABLE>>, <<>>,
                Invocation("install", EXECUTABLE, project,
                           readMetaData(f, Cwd, Cwd).value))

\* uninstall <app_name> with the name just installed.
UninstallNamed ==
    /\ ops < MaxOps
    /\ last.cmd = "install"
    /\ Run(fs, <<<<"uninstall">>, last.metadata["name"]>>, <<>>,
           Invocation("uninstall", last.metadata["name"], NoProject, NoMetadata))

NextSanitize == Sanitize \/ InstallNamed \/ UninstallNamed

SpecSanitize == InitSanitize /\ [][NextSanitize]_vars

\* An install and an uninstall of the same application name run at once, as
\* two processes with no lock: each step is one file-system call of
\* installApp (install.ts lines 190-252) or of uninstallApp (lines 330-373).
\* run.ipc and run.upc are the calls they are about to make, run.read is the
\* metadata uninstall has read, run.start the file system they started on,
\* and run.interleaved tells whether one of them has made a step while the
\* other was between its first step and its end.
ConcurrentMetas == {InstallMetadata(n, i, <<"i">> \o DOT_SVG) : n \in Names, i \in Ids}
ProjectOf(metadata) ==
    [installJson |-> JsonStringify(metadata), executable |-> TRUE, icon |-> TRUE]
InstallEnded(pc) == pc \in {"done", "failed"}
InstallRunning(r) == r.ipc # "ensureDir" /\ ~InstallEnded(r.ipc)
UninstallRunning(r) == r.upc \notin {"exists", "done"}

hostBinDirPathOf(e, metadata) ==
    join(<<getDataDir(e), BASE_INSTALL_DIR_NAME, sanitizeFileName(metadata["name"])>>)
applicationsDirOf(e) == join(<<getDataDir(e), APPLICATIONS>>)

InitConcurrent ==
    /\ env = LinuxEnv
    /\ \E metadata \in ConcurrentMetas, theme \in BOOLEAN, installed \in BOOLEAN :
        \E base \in {IF theme
                      THEN ensureDirSync([p \in {Root} |-> DirNode], IconThemeDir(env)).fs
                      ELSE [p \in {Root} |-> DirNode]} :
        \E before \in {installApp(PlaceProject(base, ProjectOf(metadata)), env, Cwd,
                                   EXECUTABLE, metadata, Cwd)} :
            /\ installed => ~before.threw
            /\ fs = PlaceProject(IF installed THEN before.fs ELSE base,
                                 ProjectOf(metadata))
            /\ run = [ipc |-> "ensureDir", upc |-> "exists", metadata |-> metadata,
                      read |-> NoMetadata, start |-> fs, interleaved |-> FALSE]
            /\ last = Invocation("install and uninstall", metadata["name"],
                                 ProjectOf(metadata), metadata)
    /\ out = <<>>
    /\ err = <<>>
    /\ exit = 0
    /\ prev = [inv |-> NoInvocation, exit |-> 0]
    /\ ops = 0

\* One step of install: the file system it leaves and the call it makes next.
InstallStepTo(f, pc) ==
    /\ ops < MaxSteps
    /\ fs' = f
    /\ run' = [run EXCEPT !.ipc = pc, !.interleaved = @ \/ UninstallRunning(run)]
    /\ ops' = ops + 1
    /\ UNCHANGED <<env, out, err, exit, last, prev>>

\* One step of uninstall, and the metadata it holds after it.
UninstallStepTo(f, pc, metadata) ==
    /\ ops < MaxSteps
    /\ fs' = f
    /\ run' = [run EXCEPT !.upc = pc, !.read = metadata,
                          !.interleaved = @ \/ InstallRunning(run)]
    /\ ops' = ops + 1
    /\ UNCHANGED <<env, out, err, exit, last, prev>>

\* ensureDirSync(hostBinDirPath), install.ts line 190.
InstallEnsureDir ==
    /\ run.ipc = "ensureDir"
    /\ \E r \in {ensureDirSync(fs, Resolve(Cwd, hostBinDirPathOf(env, run.metadata)))} :
          InstallStepTo(r.fs, IF r.ok THEN "rename" ELSE "failed")

\* Deno.renameSync(executablePath, join(hostBinDirPath, binName)), line 193.
InstallRename ==
    /\ run.ipc = "rename"
    /\ \E r \in {renameSync(fs, Resolve(Cwd, EXECUTABLE),
                             Resolve(Cwd, join(<<hostBinDirPathOf(env, run.metadata),
                                                 sanitizeFileName(run.metadata["name"])>>)))} :
          InstallStepTo(r.fs, IF r.ok THEN "metadata" ELSE "failed")

\* Deno.writeTextFileSync(join(hostBinDirPath, "metadata.json"), ...), lines 194-197.
InstallWriteMetadata ==
    /\ run.ipc = "metadata"
    /\ \E r \in {writeFileSync(fs,
                      Resolve(Cwd, join(<<hostBinDirPathOf(env, run.metadata), METADATA_JSON>>)),
                      JsonStringify(run.metadata))} :
          InstallStepTo(r.fs, IF r.ok THEN "icon" ELSE "failed")

\* Deno.copyFileSync of the icon, lines 207-217 with an id, 234-237 without.
InstallCopyIcon ==
    /\ run.ipc = "icon"
    /\ \E from \in {Resolve(Cwd, join(<<Cwd, ASSETS, run.metadata["icon"]>>))} :
       \E to \in {IF Truthy(Get(run.metadata, "id"))
                  THEN Resolve(Cwd, SystemIconPath(getDataDir(env), run.metadata["id"],
                                                   extname(run.metadata["icon"])))
                  ELSE Resolve(Cwd, join(<<hostBinDirPathOf(env, run.metadata),
                                           run.metadata["icon"]>>))} :
       \E r \in {copyFileSync(fs, from, to)} :
          InstallStepTo(r.fs, IF r.ok THEN "applications" ELSE "failed")

\* ensureDirSync(applicationsDir), lines 220 and 240.
InstallEnsureApplications ==
    /\ run.ipc = "applications"
    /\ \E r \in {ensureDirSync(fs, Resolve(Cwd, applicationsDirOf(env)))} :
          InstallStepTo(r.fs, IF r.ok THEN "launcher" ELSE "failed")

\* Deno.writeTextFileSync of the launcher, lines 221-231 and 241-251.
InstallWriteLauncher ==
    /\ run.ipc = "launcher"
    /\ \E exec \in {join(<<hostBinDirPathOf(env, run.metadata),
                            sanitizeFileName(run.metadata["name"])>>)} :
       \E r \in {IF Truthy(Get(run.metadata, "id"))
                 THEN writeFileSync(fs,
                          Resolve(Cwd, join(<<applicationsDirOf(env),
                                              run.metadata["id"] \o DOT_DESKTOP>>)),
                          DesktopEntry(run.metadata["name"], exec, run.metadata["id"]))
                 ELSE writeFileSync(fs,
                          Resolve(Cwd, join(<<applicationsDirOf(env),
                                              sanitizeFileName(run.metadata["name"])
                                                  \o DOT_DESKTOP>>)),
                          DesktopEntry(run.metadata["name"], exec,
                                       join(<<hostBinDirPathOf(env, run.metadata),
                                              run.metadata["icon"]>>)))} :
          InstallStepTo(r.fs, IF r.ok THEN "done" ELSE "failed")

\* existsSync(appPath), install.ts lines 330-333.
UninstallExists ==
    /\ run.upc = "exists"
    /\ UninstallStepTo(fs,
           IF existsSync(fs, Resolve(Cwd, hostBinDirPathOf(env, run.metadata)))
           THEN "read" ELSE "done", run.read)

\* JSON.parse(Deno.readTextFileSync(join(appPath, "metadata.json"))), lines
\* 335-342: metadata stays undefined when it throws.
UninstallReadMetadata ==
    /\ run.upc = "read"
    /\ \E r \in {readTextFileSync(fs,
                      Resolve(Cwd, join(<<hostBinDirPathOf(env, run.metadata),
                                          METADATA_JSON>>)))} :
          UninstallStepTo(fs, "removeDir",
              IF r.ok /\ JsonParse(r.data).ok THEN JsonParse(r.data).value ELSE NoMetadata)

\* Deno.removeSync(appPath, { recursive: true }), line 361; a throw ends the
\* try block, lines 375-378.
UninstallRemoveDir ==
    /\ run.upc = "removeDir"
    /\ \E r \in {removeSync(fs, Resolve(Cwd, hostBinDirPathOf(env, run.metadata)), TRUE)} :
          UninstallStepTo(r.fs, IF r.ok THEN "removeLauncher" ELSE "done", run.read)

\* Deno.removeSync(desktopFilePath), line 362, desktopFilePath of lines 344-357.
UninstallRemoveLauncher ==
    /\ run.upc = "removeLauncher"
    /\ \E r \in {removeSync(fs,
                      Resolve(Cwd, join(<<applicationsDirOf(env),
                          (IF Truthy(Get(run.read, "id")) THEN run.read["id"]
                           ELSE sanitizeFileName(run.metadata["name"])) \o DOT_DESKTOP>>)),
                      FALSE)} :
          UninstallStepTo(r.fs,
              IF r.ok /\ Truthy(Get(run.read, "id")) THEN "removeIcon" ELSE "done",
              run.read)

\* An uninstall that leaves the system icon where it is.
UninstallKeepIcon ==
    /\ run.upc = "removeIcon"
    /\ UninstallStepTo(fs, "done", run.read)

\* Deno.removeSync(iconPath), lines 363-372.
UninstallRemoveIcon ==
    /\ run.upc = "removeIcon"
    /\ \E r \in {removeSync(fs,
                      Resolve(Cwd, SystemIconPath(getDataDir(env), run.read["id"],
                                                  extname(run.read["icon"]))),
                      FALSE)} :
          UninstallStepTo(r.fs, "done", run.read)

NextConcurrent ==
    \/ InstallEnsureDir \/ InstallRename \/ InstallWriteMetadata
    \/ InstallCopyIcon \/ InstallEnsureApplications \/ InstallWriteLauncher
    \/ UninstallExists \/ UninstallReadMetadata \/ UninstallRemoveDir
    \/ UninstallRemoveLauncher \/ UninstallRemoveIcon

SpecConcurrent == InitConcurrent /\ [][NextConcurrent]_vars

\* Metadata as install.json may hold it: the id and the icon file name are
\* any strings, also with separators and ".." components.
TraversalIds == Ids \cup {<<".", ".", Sep, ".", ".", Sep, "e">>}
TraversalIcons == {<<"i">> \o DOT_SVG, <<".", ".", Sep, "i">> \o DOT_SVG}
TraversalMetas ==
    {InstallMetadata(n, i, c) : n \in Names, i \in TraversalIds, c \in TraversalIcons}

\* The file system with the project directory holding install.json with the
\* metadata, the executable, and the icon where assets/<icon> leads to.
PlaceProjectWith(f, metadata) ==
    Bind(Without(f, Subtree(f, Resolve(Cwd, Cwd))), LAMBDA outside :
    Bind(ensureDirSync(outside, Resolve(Cwd, join(<<Cwd, ASSETS>>))).fs, LAMBDA a :
    Bind(writeFileSync(a, Resolve(Cwd, join(<<Cwd, ASSETS, INSTALL_JSON>>)),
                       JsonStringify(metadata)).fs, LAMBDA j :
    Bind(writeFileSync(j, Resolve(Cwd, join(<<Cwd, EXECUTABLE>>)), Binary).fs, LAMBDA x :
    writeFileSync(x, Resolve(Cwd, join(<<Cwd, ASSETS, metadata["icon"]>>)),
                  Image("user")).fs))))

\* install <executable> in a project with any of these metadata.
InstallAny ==
    /\ ops < MaxTraversalOps
    /\ \E metadata \in TraversalMetas :
        \E f \in {PlaceProjectWith(fs, metadata)} :
            Run(f, <<<<"install">>, EXECUTABLE>>, <<>>,
                Invocation("install", EXECUTABLE, ProjectOf(metadata),
                           readMetaData(f, Cwd, Cwd).value))

\* uninstall <app_name>
UninstallAny ==
    /\ ops < MaxTraversalOps
    /\ \E appName \in UninstallNames :
        Run(fs, <<<<"uninstall">>, appName>>, <<>>,
            Invocation("uninstall", appName, NoProject, NoMetadata))

NextTraversal == InstallAny \/ UninstallAny

SpecTraversal == Init /\ [][NextTraversal]_vars

\* ------------------------------------------------------------ observations

Range(seq) == {seq[i] : i \in DOMAIN seq}

\* The paths of the persisted layout, written out component by component
\* below the data directory /d of LinuxEnv.
DataDirPath == <<<<"d">>>>
InstallRootPath == Append(DataDirPath, <<"deno-installed-apps">>)
InstallDirPath(dirName) == Append(InstallRootPath, dirName)
ApplicationsPath == Append(DataDirPath, <<"applications">>)
LauncherPath(stem) == Append(ApplicationsPath, stem \o <<".", "d", "e", "s", "k", "t", "o", "p">>)
IconsPath == Append(DataDirPath, <<"icons">>)
ThemePath == IconsPath \o <<<<"hicolor">>, <<"scalable">>, <<"apps">>>>
SystemIconFile(id) == Append(ThemePath, id \o <<".", "s", "v", "g">>)
ProjectPath == <<<<"proj">>>>

\* The name with every character outside [A-Za-z0-9_-] replaced by "_", for
\* the characters the names of the model are made of.
Sanitized(name) ==
    [i \in 1..Len(name) |-> IF name[i] \in {"a", "_", "-"} THEN name[i] ELSE "_"]

\* The last invocation was an install that succeeded.
Installed == last.cmd = "install" /\ exit = 0
InstalledWithId == Installed /\ "id" \in DOMAIN last.metadata
InstalledWithoutId == Installed /\ "id" \notin DOMAIN last.metadata

\* What a list run now would print, for every order of the directory entries.
ListOutputs == {listApps(fs, env, Cwd, order).out : order \in ReadDirOrders(fs, env, Cwd)}
ListResults == {listApps(fs, env, Cwd, order) : order \in ReadDirOrders(fs, env, Cwd)}

\* -------------------------------------------------------------- properties

\* C1: after install(executable, metadata) succeeds, a following list prints
\* an entry equal to metadata.name character for character.
C1_ListShowsNameAsGiven ==
    Installed =>
        \A o \in ListOutputs : Line("-", last.metadata["name"]) \in Range(o)

\* The stem of the launcher file of a metadata: its id, else the sanitized name.
LauncherStem(metadata) ==
    IF "id" \in DOMAIN metadata THEN metadata["id"] ELSE Sanitized(metadata["name"])

\* The last invocation was uninstall(metadata.name), run right after a
\* successful install of that metadata.
UninstalledTheInstalled ==
    /\ prev.inv.cmd = "install" /\ prev.exit = 0
    /\ last.cmd = "uninstall" /\ last.arg = prev.inv.metadata["name"]

\* The install directory, the launcher and the system icon of the metadata
\* do not exist.
EntitiesGone(f, metadata) ==
    /\ ~Exists(f, InstallDirPath(Sanitized(metadata["name"])))
    /\ ~Exists(f, LauncherPath(LauncherStem(metadata)))
    /\ "id" \in DOMAIN metadata => ~Exists(f, SystemIconFile(metadata["id"]))

\* C2: after a successful install followed by uninstall(metadata.name) the
\* install directory, the launcher file and the system icon no longer exist,
\* and a following list does not show metadata.name.
C2_UninstallRemovesAllAndListHidesName ==
    UninstalledTheInstalled =>
        /\ EntitiesGone(fs, prev.inv.metadata)
        /\ \A o \in ListOutputs : Line("-", prev.inv.metadata["name"]) \notin Range(o)

\* The part of C2 about the files alone.
C2_UninstallRemovesEntities ==
    UninstalledTheInstalled => EntitiesGone(fs, prev.inv.metadata)

\* The text of a path below the install root: /d/deno-installed-apps/<dir>/<file>.
InstalledFileText(dirName, fileName) ==
    <<"/", "d", "/", "deno-installed-apps", "/">> \o dirName \o <<"/">> \o fileName

\* The file at path is a text whose first field `key` holds exactly value.
LauncherHas(f, path, key, value) ==
    /\ IsFile(f, path)
    /\ f[path].data.t = "text"
    /\ LET c == f[path].data.chars
       IN  \E i \in 1..Len(c) :
              /\ c[i] = key
              /\ \A j \in 1..(i - 1) : c[j] # key
              /\ i + Len(value) + 1 <= Len(c)
              /\ SubSeq(c, i + 1, i + Len(value)) = value
              /\ c[i + Len(value) + 1] = "\n"

\* The executable of the project, as install leaves it.
IsExecutable(f, path) == IsFile(f, path) /\ f[path].data = [t |-> "bin"]

InstallStep(l) == l.cmd = "install" /\ l.project.executable /\ l.project.icon
HasId(metadata) == "id" \in DOMAIN metadata
IsSvg(icon) ==
    Len(icon) >= 4 /\ SubSeq(icon, Len(icon) - 3, Len(icon)) = <<".", "s", "v", "g">>
ProjectIcon(metadata) == ProjectPath \o <<<<"assets">>, metadata["icon"]>>
MetadataFile(dirName) == Append(InstallDirPath(dirName), <<"metadata", ".", "j", "s", "o", "n">>)

\* What an install with an id leaves: the icon in the icon theme, and the
\* launcher <id>.desktop with Icon=<id> and Exec=<path of the executable>.
PlacedWithId(f, metadata) ==
    LET id == metadata["id"]
        S == Sanitized(metadata["name"])
    IN  /\ IsFile(f, SystemIconFile(id))
        /\ f[SystemIconFile(id)] = f[ProjectIcon(metadata)]
        /\ LauncherHas(f, LauncherPath(id), "Icon=", id)
        /\ LauncherHas(f, LauncherPath(id), "Exec=", InstalledFileText(S, S))
        /\ IsExecutable(f, Append(InstallDirPath(S), S))

\* Between f and g nothing appears or changes below dir but the paths in written.
OnlyWritten(f, g, dir, written) ==
    \A p \in Subtree(g, dir) : p \notin written => p \in DOMAIN f /\ g[p] = f[p]

\* C4: with an id and a .svg icon, a successful install copies the icon to
\* <dataDir>/icons/hicolor/scalable/apps/<id>.svg, writes the launcher to
\* <dataDir>/applications/<id>.desktop with Icon=<id> and Exec=<absolute path
\* of the installed executable>, and puts no icon copy in the install directory.
C4_InstallWithIdPlacement ==
    [][(last'.cmd = "install" /\ exit' = 0 /\ HasId(last'.metadata)
            /\ IsSvg(last'.metadata["icon"]))
        => LET S == Sanitized(last'.metadata["name"])
           IN  /\ PlacedWithId(fs', last'.metadata)
               /\ OnlyWritten(fs, fs', InstallDirPath(S),
                      {InstallDirPath(S), Append(InstallDirPath(S), S), MetadataFile(S)})]_vars

\* An install with an id succeeded in a directory that still holds the icon
\* copy of an earlier install without one.
C4_Witness ==
    /\ InstalledWithId
    /\ PlacedWithId(fs, last.metadata)
    /\ prev.inv.cmd = "install" /\ prev.exit = 0 /\ ~HasId(prev.inv.metadata)
    /\ prev.inv.metadata["name"] = last.metadata["name"]

\* The files and directories below the data directory.
DataDirState(f) == [p \in Subtree(f, DataDirPath) |-> f[p]]

\* C5: with an id and an icon whose extension is not .svg, install fails with
\* an unsupported-icon-format error, writes no launcher file and no system
\* icon, and leaves the file system as it was before the install started.
C5_UnsupportedIconLeavesNoTrace ==
    [][(InstallStep(last') /\ HasId(last'.metadata) /\ ~IsSvg(last'.metadata["icon"]))
        => /\ exit' = 1
           /\ \E l \in Range(err') : l.msg = "Unsupported icon format"
           /\ DataDirState(fs') = DataDirState(fs)]_vars

\* The part of C5 about the error, the launcher and the system icon.
C5_UnsupportedIconFails ==
    [][(InstallStep(last') /\ HasId(last'.metadata) /\ ~IsSvg(last'.metadata["icon"]))
        => /\ exit' = 1
           /\ \E l \in Range(err') : l.msg = "Unsupported icon format"
           /\ Subtree(fs', ApplicationsPath) = Subtree(fs, ApplicationsPath)
           /\ Subtree(fs', IconsPath) = Subtree(fs, IconsPath)]_vars

\* What an install without an id leaves: the icon in the install directory
\* under its own name, and the launcher <S>.desktop with Icon=<path of it>.
PlacedWithoutId(f, metadata) ==
    LET S == Sanitized(metadata["name"])
        icon == metadata["icon"]
    IN  /\ IsFile(f, Append(InstallDirPath(S), icon))
        /\ f[Append(InstallDirPath(S), icon)] = f[ProjectIcon(metadata)]
        /\ LauncherHas(f, LauncherPath(S), "Icon=", InstalledFileText(S, icon))

\* C6: without an id, a successful install copies the icon unchanged into the
\* install directory under its original filename, writes the launcher to
\* <dataDir>/applications/<sanitized name>.desktop with Icon=<absolute path of
\* the copied icon>, and creates no file under <dataDir>/icons.
C6_InstallWithoutIdPlacement ==
    [][(last'.cmd = "install" /\ exit' = 0 /\ ~HasId(last'.metadata))
        => /\ PlacedWithoutId(fs', last'.metadata)
           /\ OnlyWritten(fs, fs', IconsPath, {})]_vars

\* An install without an id succeeded with an icon that is not an SVG.
C6_Witness ==
    /\ InstalledWithoutId
    /\ ~IsSvg(last.metadata["icon"])
    /\ PlacedWithoutId(fs, last.metadata)

\* C7: from a data directory with neither an applications directory nor an
\* icons/hicolor/scalable/apps directory, an install with an id and a .svg
\* icon creates both directories and succeeds.
C7_InstallCreatesItsDirectories ==
    [][(InstallStep(last') /\ HasId(last'.metadata) /\ IsSvg(last'.metadata["icon"])
            /\ ~Exists(fs, ApplicationsPath) /\ ~Exists(fs, ThemePath))
        => /\ exit' = 0
           /\ IsDir(fs', ApplicationsPath)
           /\ IsDir(fs', ThemePath)]_vars

NotInstalledLine(appName) == Line("is not installed.", appName)

\* C8: uninstall(appName) for a name whose sanitized install directory does
\* not exist reports "not installed", raises no error and changes no file or
\* directory; an uninstall right after an uninstall of the same name is such
\* a call.
C8_UninstallOfAbsentIsNoOp ==
    [][(last'.cmd = "uninstall"
            /\ (\/ ~Exists(fs, InstallDirPath(Sanitized(last'.arg)))
                \/ (last.cmd = "uninstall" /\ last.arg = last'.arg)))
        => /\ fs' = fs
           /\ out' = <<NotInstalledLine(last'.arg)>>
           /\ err' = <<>>
           /\ exit' = 0]_vars

\* An application was uninstalled and then uninstalled again.
C8_Witness ==
    /\ last.cmd = "uninstall" /\ prev.inv.cmd = "uninstall"
    /\ last.arg = prev.inv.arg
    /\ out = <<NotInstalledLine(last.arg)>>
    /\ IsDir(fs, InstallRootPath) /\ IsDir(fs, ApplicationsPath)
    /\ ops = 3

\* The application appName is installed with the id, its launcher file is
\* missing and its system icon is there.
LauncherMissing(f, appName, id) ==
    LET S == Sanitized(appName)
    IN  /\ IsDir(f, InstallDirPath(S))
        /\ IsFile(f, MetadataFile(S))
        /\ f[MetadataFile(S)].data.t = "json"
        /\ <<"id", id>> \in f[MetadataFile(S)].data.members
        /\ ~Exists(f, LauncherPath(id))
        /\ IsFile(f, SystemIconFile(id))

\* C9: during uninstall of an installed app a failing deletion is reported
\* and the remaining deletions are still attempted: with the launcher file
\* already missing, the system icon of an app with an id is still removed.
C9_UninstallGoesOnAfterAFailure ==
    \A appName \in UninstallNames : \A id \in Ids \ {Undefined} :
        LauncherMissing(fs, appName, id) =>
            LET r == uninstallApp(fs, env, Cwd, appName)
            IN  /\ r.err # <<>>
                /\ ~Exists(r.fs, InstallDirPath(Sanitized(appName)))
                /\ ~Exists(r.fs, SystemIconFile(id))

NoApplicationsLine == Line("No applications installed.", <<>>)

\* The install root does not exist, or holds no directory.
NoApplicationDirectory(f) ==
    \/ ~Exists(f, InstallRootPath)
    \/ IsDir(f, InstallRootPath) /\ \A p \in Children(f, InstallRootPath) : ~IsDir(f, p)

\* C10: list prints "No applications installed.", and no error, when the
\* install root does not exist and when it exists but holds no application
\* directory.
C10_ListOfNothing ==
    NoApplicationDirectory(fs) =>
        \A r \in ListResults :
            r.out = <<NoApplicationsLine>> /\ r.err = <<>> /\ ~r.threw

\* list ran on an install root that exists and is empty.
C10_Witness ==
    /\ last.cmd = "list"
    /\ IsDir(fs, InstallRootPath) /\ Children(fs, InstallRootPath) = {}
    /\ out = <<NoApplicationsLine>> /\ err = <<>> /\ exit = 0

\* The id recorded in the metadata.json of an install directory, Undefined
\* when the directory records none.
StoredId(f, dirName) ==
    IF IsFile(f, MetadataFile(dirName)) /\ f[MetadataFile(dirName)].data.t = "json"
       /\ \E m \in f[MetadataFile(dirName)].data.members : m[1] = "id"
    THEN (CHOOSE m \in f[MetadataFile(dirName)].data.members : m[1] = "id")[2]
    ELSE Undefined

\* The launcher file of an install directory.
LauncherOf(f, dirName) ==
    LauncherPath(IF StoredId(f, dirName) = Undefined THEN dirName
                 ELSE StoredId(f, dirName))

\* The names of the install directories.
InstallDirs(f) == {Last(p) : p \in {q \in Children(f, InstallRootPath) : IsDir(f, q)}}

\* C11: in list, an install directory whose launcher file is missing or has
\* no Name= line does not stop the listing: every installed app with a
\* readable launcher is still listed (here: the app whose launcher holds
\* Name=a, a name that trimming leaves alone).
C11_ListSkipsUnreadableLaunchers ==
    \A r \in ListResults : \A dirName \in InstallDirs(fs) :
        LauncherHas(fs, LauncherOf(fs, dirName), "Name=", <<"a">>)
            => Line("-", <<"a">>) \in Range(r.out)

\* A variable is set when it holds a non-empty value.
IsSet(e, name) == name \in DOMAIN e.vars /\ e.vars[name] # <<>>

\* The data directory the environment calls for, Null for none.
DataDirOf(e) ==
    CASE e.os = "linux" /\ IsSet(e, "XDG_DATA_HOME") -> e.vars["XDG_DATA_HOME"]
      [] e.os = "linux" /\ ~IsSet(e, "XDG_DATA_HOME") /\ IsSet(e, "HOME") ->
            e.vars["HOME"] \o <<"/", ".local", "/", "share">>
      [] e.os = "darwin" /\ IsSet(e, "HOME") ->
            e.vars["HOME"] \o <<"/", "Library", "/", "Application Support">>
      [] e.os = "windows" /\ "APPDATA" \in DOMAIN e.vars -> e.vars["APPDATA"]
      [] OTHER -> <<"<null>">>

\* C12: getDataDir is a function of the OS and the environment only: on
\* Linux XDG_DATA_HOME if set, else $HOME/.local/share; on macOS
\* $HOME/Library/Application Support; on Windows %APPDATA%; none on an
\* unknown OS or when the required variable is missing.
C12_DataDirOfOsAndEnvironment ==
    last.cmd = "getDataDir" => out = <<Line("getDataDir", DataDirOf(env))>>

\* getDataDir ran on Linux without XDG_DATA_HOME and returned the directory
\* below HOME.
C12_Witness ==
    /\ last.cmd = "getDataDir"
    /\ env.os = "linux" /\ "XDG_DATA_HOME" \notin DOMAIN env.vars
    /\ out = <<Line("getDataDir", <<"/", "h", "/", ".local", "/", "share">>)>>

CouldNotDetermine == "Could not determine user data directory."

\* C13: when getDataDir returns none, install, list and uninstall each abort
\* with a diagnostic before any mutation of the file system: the exit code is
\* 1, something is printed (on Linux, for a readable install.json, the
\* message of the failed assertion), and the file system is the one the
\* invocation found.
C13_NoDataDirAbortsBeforeMutation ==
    [][(getDataDir(env) = Null /\ last'.cmd \in {"install", "list", "uninstall"})
        => /\ exit' = 1
           /\ out' \o err' # <<>>
           /\ (env.os = "linux"
               /\ (last'.cmd = "install" => last'.project.installJson.t = "json"))
                 => \E l \in Range(err') : l.msg = CouldNotDetermine
           /\ fs' = IF last'.cmd = "install" THEN PlaceProject(fs, last'.project)
                    ELSE fs]_vars

\* On Linux with neither XDG_DATA_HOME nor HOME, an install with a readable
\* install.json, and an uninstall, have failed at the assertion.
C13_Witness ==
    /\ env.os = "linux" /\ getDataDir(env) = Null
    /\ last.cmd \in {"install", "uninstall"}
    /\ last.cmd = "install" => last.project.installJson.t = "json" /\ last.project.executable
    /\ exit = 1
    /\ \E l \in Range(err) : l.msg = CouldNotDetermine

\* C14: when assets/install.json cannot be read or parsed, install exits with
\* code 1 and performs no part of the installation: the executable stays in
\* the project, and no directory, metadata.json, icon or launcher is created
\* (the file system is the one install found).
C14_NoMetadataNoInstall ==
    [][(last'.cmd = "install" /\ last'.project.installJson.t # "json")
        => /\ exit' = 1
           /\ \E l \in Range(out') : l.msg = "Could not find install.json"
           /\ fs' = PlaceProject(fs, last'.project)]_vars

\* An install has failed on an unparsable install.json, after an earlier
\* successful install, and the executable is still in the project.
C14_Witness ==
    /\ last.cmd = "install" /\ last.project.installJson = Garbage
    /\ exit = 1
    /\ prev.inv.cmd = "install" /\ prev.exit = 0
    /\ IsFile(fs, Append(ProjectPath, EXECUTABLE))

AssetsPath == Append(ProjectPath, <<"assets">>)
InitInstallJson == Append(AssetsPath, <<"install", ".", "j", "s", "o", "n">>)
InitIcon == Append(AssetsPath, <<"icon", ".", "s", "v", "g">>)

\* What init <name> leaves in the project: install.json with the name,
\* version 0.1.0, icon icon.svg and no id, and the placeholder in icon.svg.
Initialized(f, name) ==
    /\ IsFile(f, InitInstallJson) /\ IsFile(f, InitIcon)
    /\ f[InitInstallJson].data.t = "json"
    /\ \A m \in {<<"name", name>>, <<"version", <<"0", ".", "1", ".", "0">>>>,
                 <<"icon", <<"icon", ".", "s", "v", "g">>>>} :
            m \in f[InitInstallJson].data.members
    /\ \A m \in f[InitInstallJson].data.members :
            m[1] # "id" /\ (m[1] \in {"name", "version", "icon"}
                              => \A n \in f[InitInstallJson].data.members :
                                    n[1] = m[1] => n = m)
    /\ f[InitIcon].data = [t |-> "image", img |-> "placeholder"]

\* C15: after every init, whatever was there before (another init, or an
\* install.json with other contents), assets/install.json and assets/icon.svg
\* exist, install.json holds the name of this init, version 0.1.0 and icon
\* icon.svg with no id, icon.svg is the placeholder, and the same init run
\* again leaves the same state.
C15_InitOverwritesAndIsIdempotent ==
    last.cmd = "init"
        => /\ exit = 0
           /\ Initialized(fs, last.arg)
           /\ initApp(fs, Cwd, last.arg).fs = fs
           /\ ~initApp(fs, Cwd, last.arg).threw

\* An init has run over the install.json, with an id, of an installed
\* project, and another init with another name before that.
C15_Witness ==
    /\ last.cmd = "init" /\ exit = 0
    /\ prev.inv.cmd = "install" /\ prev.exit = 0 /\ "id" \in DOMAIN prev.inv.metadata
    /\ prev.inv.metadata["name"] # last.arg
    /\ Initialized(fs, last.arg)

C15_WitnessTwice ==
    /\ last.cmd = "init" /\ prev.inv.cmd = "init" /\ prev.inv.arg # last.arg
    /\ Initialized(fs, last.arg)

\* What the tool prints on a usage failure, on a validation failure and on a
\* failed file-system operation.
UsageFailures ==
    {"Usage:", "Please provide the executable path",
     "Please provide the name of the app to uninstall.",
     "Please provide a name for your application."}
ValidationFailures ==
    {"Could not find install.json", "Error reading metadata:", "Unsupported icon format"}
IoFailures ==
    {"Error listing applications:", "Error uninstalling application", "ensureDirSync",
     "renameSync", "copyFileSync", "writeFileSync", "writeTextFileSync"}
Failed(lines) ==
    \E l \in Range(lines) : l.msg \in UsageFailures \cup ValidationFailures \cup IoFailures

\* C16: an invocation exits with code 1 when it hits a usage failure, a
\* validation failure or a file-system I/O failure in any subcommand, and
\* with code 0 otherwise.
C16_ExitCodeTellsFailure ==
    last.cmd # "none" => exit = IF Failed(out \o err) THEN 1 ELSE 0

UnsupportedOs == [msg |-> "Unsupported OS, feel free to open a PR", arg |-> <<>>]

ParsedBack(data) ==
    [k \in {m[1] : m \in data.members} |-> (CHOOSE m \in data.members : m[1] = k)[2]]

Launchers(f) == {p \in Children(f, ApplicationsPath) : IsFile(f, p)}
SystemIcons(f) == {p \in Children(f, ThemePath) : IsFile(f, p)}
NoOrphans(f) ==
    /\ \A p \in Launchers(f) : \E dirName \in InstallDirs(f) : LauncherOf(f, dirName) = p
    /\ \A p \in SystemIcons(f) :
          \E dirName \in InstallDirs(f) :
              /\ StoredId(f, dirName) # Undefined
              /\ SystemIconFile(StoredId(f, dirName)) = p

\* Every invocation so far, at most two, was an install or an uninstall that
\* succeeded.
Succeeded(cmd, code) == cmd = "none" \/ (cmd \in {"install", "uninstall"} /\ code = 0)
OnlySuccessfulInstallsAndUninstalls ==
    /\ ops <= 2
    /\ Succeeded(prev.inv.cmd, prev.exit)
    /\ Succeeded(last.cmd, exit) /\ err = <<>>

\* C19: in every state reached by successful installs and uninstalls, every
\* launcher and every system icon belongs to an app whose install directory
\* still exists: no launcher or icon is orphaned.
C19_NoOrphans ==
    OnlySuccessfulInstallsAndUninstalls => NoOrphans(fs)

\* C19 when nothing is installed any more: no launcher and no system icon is left.
C19_NothingLeftWithoutApps ==
    [][(OnlySuccessfulInstallsAndUninstalls /\ last'.cmd = "uninstall" /\ exit' = 0
        /\ err' = <<>> /\ InstallDirs(fs') = {})
        => Launchers(fs') = {} /\ SystemIcons(fs') = {}]_vars

\* The icon file name a stored metadata.json holds, Undefined when it has none.
StoredIcon(f, dirName) ==
    IF IsFile(f, MetadataFile(dirName)) /\ f[MetadataFile(dirName)].data.t = "json"
       /\ \E m \in f[MetadataFile(dirName)].data.members : m[1] = "icon"
    THEN (CHOOSE m \in f[MetadataFile(dirName)].data.members : m[1] = "icon")[2]
    ELSE Undefined

\* C20: in every reachable state, also after a failed install, every
\* metadata.json of an install directory that holds an id holds an icon file
\* name with the extension .svg.
C20_StoredIdHasSvgIcon ==
    \A dirName \in InstallDirs(fs) :
        StoredId(fs, dirName) # Undefined => IsSvg(StoredIcon(fs, dirName))

\* An install whose icon file is missing from assets, with metadata that
\* passes the extension check.
IconCopyFails(l) ==
    /\ l.cmd = "install" /\ l.project.installJson.t = "json"
    /\ l.project.executable /\ ~l.project.icon
    /\ HasId(l.metadata) => IsSvg(l.metadata["icon"])
InstalledExecutable(metadata) ==
    Append(InstallDirPath(Sanitized(metadata["name"])), Sanitized(metadata["name"]))

EntityPaths(f, metadata) ==
    Subtree(f, InstallDirPath(Sanitized(metadata["name"])))
        \cup {LauncherPath(LauncherStem(metadata))}
        \cup (IF "id" \in DOMAIN metadata THEN {SystemIconFile(metadata["id"])} ELSE {})

\* The directories the entities live in, which install creates when they are
\* missing and uninstall never deletes.
SharedDirectories == {DataDirPath, InstallRootPath, ApplicationsPath}

\* The paths under the data directory that differ between f and g.
Written(f, g) ==
    {p \in Subtree(f, DataDirPath) \cup Subtree(g, DataDirPath) :
        p \notin DOMAIN f \/ p \notin DOMAIN g \/ f[p] # g[p]}

\* C22: for every metadata, uninstall(metadata.name) run after a successful
\* install of it deletes exactly the paths of the installation: the install
\* directory, the launcher under the same file name rule, and the system icon
\* only when the metadata has an id; install wrote nothing else below the data
\* directory but the directories these live in, and uninstall touches nothing
\* else.
C22_UninstallDeletesWhatInstallCreated ==
    [][(last'.cmd = "install" /\ exit' = 0)
        => /\ EntityPaths(fs', last'.metadata) \subseteq DOMAIN fs'
           /\ Written(fs, fs') \subseteq
                  EntityPaths(fs', last'.metadata) \cup SharedDirectories
           /\ Written(fs', uninstallApp(fs', env, Cwd, last'.metadata["name"]).fs)
                  = EntityPaths(fs', last'.metadata)
           /\ DOMAIN uninstallApp(fs', env, Cwd, last'.metadata["name"]).fs
                  = DOMAIN fs' \ EntityPaths(fs', last'.metadata)]_vars

\* A metadata with an id and a name the sanitizer changes is installed, with
\* its launcher and system icon named after the id.
C22_Witness ==
    /\ InstalledWithId
    /\ Sanitized(last.metadata["name"]) # last.metadata["name"]
    /\ IsFile(fs, LauncherPath(last.metadata["id"]))
    /\ IsFile(fs, SystemIconFile(last.metadata["id"]))
    /\ IsDir(fs, InstallDirPath(Sanitized(last.metadata["name"])))

\* The name with every character outside [A-Za-z0-9_-] replaced by "_", for
\* the characters of NameStrings.
SanitizedName(name) ==
    [i \in 1..Len(name) |-> IF name[i] \in {"a", "Z", "0", "_", "-"} THEN name[i] ELSE "_"]

\* C23: sanitizeFileName(name) has the length of name, keeps every character
\* of [A-Za-z0-9_-] and has "_" for every other one; it is idempotent; and
\* install and uninstall use it for the install directory name and, without
\* an id, for the stem of the launcher file.
C23_SanitizeFileName ==
    /\ last.cmd = "sanitizeFileName"
        => /\ out = <<[msg |-> "sanitizeFileName", arg |-> SanitizedName(last.arg)]>>
           /\ Len(out[1].arg) = Len(last.arg)
           /\ sanitizeFileName(out[1].arg) = out[1].arg
           /\ prev.inv.cmd = "sanitizeFileName" => out[1].arg = last.arg
    /\ Installed
        => /\ IsExecutable(fs, Append(InstallDirPath(SanitizedName(last.metadata["name"])),
                                      SanitizedName(last.metadata["name"])))
           /\ "id" \notin DOMAIN last.metadata
                => IsFile(fs, LauncherPath(SanitizedName(last.metadata["name"])))
    /\ (last.cmd = "uninstall" /\ prev.inv.cmd = "install" /\ prev.exit = 0)
        => /\ exit = 0
           /\ ~Exists(fs, InstallDirPath(SanitizedName(last.arg)))
           /\ "id" \notin DOMAIN prev.inv.metadata
                => ~Exists(fs, LauncherPath(SanitizedName(last.arg)))

\* sanitizeFileName has run on a name with a kept character of each kind
\* around a separator.
C23_Witness ==
    /\ last.cmd = "sanitizeFileName"
    /\ last.arg = <<"a", "/", "Z">>
    /\ out = <<[msg |-> "sanitizeFileName", arg |-> <<"a", "_", "Z">>]>>

\* A name with two characters to replace has been installed without an id
\* and uninstalled.
C23_WitnessUninstalled ==
    /\ last.cmd = "uninstall" /\ last.arg = <<" ", "a", ".">>
    /\ prev.inv.cmd = "install" /\ prev.exit = 0 /\ "id" \notin DOMAIN prev.inv.metadata
    /\ ~Exists(fs, LauncherPath(<<"_", "a", "_">>))
    /\ \E l \in Range(out) : l.msg = "uninstalled successfully"

\* Both invocations of the concurrent run have ended.
BothEnded == run.ipc \in {"done", "failed"} /\ run.upc = "done"

\* Where the two sequential orders end from the file system f: install then
\* uninstall, and uninstall then install.
InstallArgs == <<<<"install">>, <<"app">>>>
UninstallArgs(name) == <<<<"uninstall">>, name>>
SequentialOutcomes(f, name) ==
    {main(main(f, env, Cwd, InstallArgs, <<>>).fs, env, Cwd, UninstallArgs(name), <<>>).fs,
     main(main(f, env, Cwd, UninstallArgs(name), <<>>).fs, env, Cwd, InstallArgs, <<>>).fs}

LauncherOfRun == LauncherPath(LauncherStem(run.metadata))
InstallDirOfRun == InstallDirPath(Sanitized(run.metadata["name"]))

C24_WitnessNoLauncher ==
    /\ BothEnded /\ run.interleaved /\ run.ipc = "done"
    /\ fs \notin SequentialOutcomes(run.start, run.metadata["name"])
    /\ IsDir(fs, InstallDirOfRun) /\ ~Exists(fs, LauncherOfRun)

\* The data directory with nothing installed: what the behaviour started on.
CleanFs(f) ==
    [p \in {<<>>} \cup (IF IsDir(f, ThemePath)
                        THEN {SubSeq(ThemePath, 1, k) : k \in 1..Len(ThemePath)}
                        ELSE {}) |-> [kind |-> "dir"]]

\* The metadata passes the icon check of install.
ValidMetadata(metadata) == HasId(metadata) => IsSvg(metadata["icon"])

\* The first invocation was an install that failed after it had moved the
\* executable, the second was uninstall(metadata.name), and the step is an
\* install of valid metadata of that name, with the executable and the icon
\* in the project.
RecoveryInstall(l) ==
    /\ ops = 2
    /\ prev.inv.cmd = "install" /\ prev.exit = 1
    /\ prev.inv.project.installJson.t = "json" /\ prev.inv.project.executable
    /\ last.cmd = "uninstall" /\ last.arg = prev.inv.metadata["name"]
    /\ InstallStep(l) /\ l.project.installJson.t = "json"
    /\ ValidMetadata(l.metadata)
    /\ l.metadata["name"] = last.arg

SameAsOnClean(f, g, project) ==
    DataDirState(g)
        = DataDirState(main(PlaceProject(CleanFs(f), project), env, Cwd,
                            <<<<"install">>, <<"app">>>>, <<>>).fs)

\* C25: after an install that failed partway (executable moved, no launcher
\* written), uninstall(metadata.name) and then a fresh install, with the
\* executable supplied again and valid metadata, succeeds and leaves the data
\* directory as that install leaves a clean one.
C25_UninstallThenInstallRecovers ==
    [][RecoveryInstall(last')
        => exit' = 0 /\ SameAsOnClean(fs, fs', last'.project)]_vars

\* C25 without the claim of success: the recovering install ends as it ends
\* on a clean data directory, and it succeeds when the metadata has no id or
\* the icon theme directory exists.
C25_RecoversAsOnClean ==
    [][RecoveryInstall(last')
        => /\ SameAsOnClean(fs, fs', last'.project)
           /\ (~HasId(last'.metadata) \/ IsDir(fs, ThemePath)) => exit' = 0]_vars

\* The step installs again the metadata the install before it was given,
\* both with the executable and the icon in the project.
InstallsAgain(l) ==
    /\ InstallStep(last) /\ last.project.installJson.t = "json"
    /\ ValidMetadata(last.metadata)
    /\ l.cmd = "install" /\ l.project = last.project

\* How often the lines hold the entry of name.
Entries(lines, name) ==
    Cardinality({i \in DOMAIN lines : lines[i] = [msg |-> "-", arg |-> name]})

\* C26: installing the same metadata twice, the executable supplied again
\* for the second run, succeeds both times and leaves the same files under
\* the data directory as installing it once, and list then shows the name of
\* the app exactly once.
C26_ReinstallOverwrites ==
    [][InstallsAgain(last')
        => /\ exit = 0 /\ exit' = 0
           /\ DataDirState(fs') = DataDirState(fs)
           /\ \A order \in ReadDirOrders(fs', env, Cwd) :
                  Entries(listApps(fs', env, Cwd, order).out, last'.metadata["name"]) = 1]_vars

\* C26 for the files only: after a successful install, the same install
\* again succeeds and leaves the data directory as it was.
C26_ReinstallLeavesSameFiles ==
    [][(InstallsAgain(last') /\ exit = 0)
        => exit' = 0 /\ DataDirState(fs') = DataDirState(fs)]_vars

\* C26 for the list: after the two installs on a clean data directory, list
\* has one entry, the name without the white space around it.
C26_ListShowsTrimmedNameOnce ==
    [][(InstallsAgain(last') /\ exit = 0 /\ ops = 1)
        => \A order \in ReadDirOrders(fs', env, Cwd) :
              /\ Entries(listApps(fs', env, Cwd, order).out, trim(last'.metadata["name"])) = 1
              /\ Len(listApps(fs', env, Cwd, order).out) = 2]_vars

\* The name a stored metadata.json holds, Undefined when it has none.
StoredName(f, dirName) ==
    IF IsFile(f, MetadataFile(dirName)) /\ f[MetadataFile(dirName)].data.t = "json"
       /\ \E m \in f[MetadataFile(dirName)].data.members : m[1] = "name"
    THEN (CHOOSE m \in f[MetadataFile(dirName)].data.members : m[1] = "name")[2]
    ELSE Undefined

\* The entities of the app installed in dirName: its install directory with
\* what it holds, its launcher, and with an id its system icon.
EntitiesOf(f, dirName) ==
    Subtree(f, InstallDirPath(dirName))
        \cup {LauncherOf(f, dirName)}
        \cup (IF StoredId(f, dirName) = Undefined THEN {}
              ELSE {SystemIconFile(StoredId(f, dirName))})

\* dirName holds an installed app: all its entities exist.
IsInstalledApp(f, dirName) ==
    /\ StoredName(f, dirName) # Undefined
    /\ EntitiesOf(f, dirName) \subseteq DOMAIN f

ListShows(f, name) ==
    \A order \in ReadDirOrders(f, env, Cwd) :
        [msg |-> "-", arg |-> name] \in Range(listApps(f, env, Cwd, order).out)

\* C27: uninstalling app A leaves every entity of any other installed app B
\* unchanged when A and B have different sanitized names: the install
\* directory, the launcher and the system icon of B are there as before,
\* and list shows the name of B if it did before. Stated for the apps that
\* successful installs and uninstalls have left.
C27_UninstallLeavesOtherApps ==
    [][(/\ last'.cmd = "uninstall" /\ IsInstalledApp(fs, Sanitized(last'.arg))
        /\ OnlySuccessfulInstallsAndUninstalls)
        => \A dirName \in InstallDirs(fs) :
              (IsInstalledApp(fs, dirName) /\ dirName # Sanitized(last'.arg))
                  => /\ \A p \in EntitiesOf(fs, dirName) : p \in DOMAIN fs' /\ fs'[p] = fs[p]
                     /\ ListShows(fs, StoredName(fs, dirName))
                            => ListShows(fs', StoredName(fs, dirName))]_vars

\* C27 for apps that share no launcher and no system icon with the app
\* uninstalled: these are left as they were.
C27_UninstallLeavesAppsWithOtherFiles ==
    [][last'.cmd = "uninstall"
        => \A dirName \in InstallDirs(fs) :
              (/\ IsInstalledApp(fs, dirName) /\ dirName # Sanitized(last'.arg)
               /\ EntitiesOf(fs, dirName) \cap EntitiesOf(fs, Sanitized(last'.arg)) = {})
                  => \A p \in EntitiesOf(fs, dirName) : p \in DOMAIN fs' /\ fs'[p] = fs[p]]_vars

\* The two invocations so far were successful installs of apps with
\* different names.
TwoAppsInstalled ==
    /\ ops = 2
    /\ prev.inv.cmd = "install" /\ prev.exit = 0
    /\ last.cmd = "install" /\ exit = 0
    /\ prev.inv.metadata["name"] # last.metadata["name"]

\* C28: after two apps with different names have both been installed
\* successfully and neither has been uninstalled, list shows both names,
\* one entry for each app.
C28_ListShowsBothApps ==
    TwoAppsInstalled
        => \A o \in ListOutputs :
              /\ [msg |-> "-", arg |-> prev.inv.metadata["name"]] \in Range(o)
              /\ [msg |-> "-", arg |-> last.metadata["name"]] \in Range(o)

\* C28 in the files list reads: each of the two apps has a launcher that
\* holds its name.
C28_EachAppHasItsLauncher ==
    TwoAppsInstalled
        => /\ LauncherHas(fs, LauncherPath(LauncherStem(prev.inv.metadata)), "Name=",
                          prev.inv.metadata["name"])
           /\ LauncherHas(fs, LauncherPath(LauncherStem(last.metadata)), "Name=",
                          last.metadata["name"])

\* The paths that differ between f and g outside the project directory.
Touched(f, g) ==
    {p \in DOMAIN f \cup DOMAIN g :
        /\ ~(Len(p) >= 1 /\ SubSeq(p, 1, 1) = ProjectPath)
        /\ p \notin DOMAIN f \/ p \notin DOMAIN g \/ f[p] # g[p]}

\* The path is the data directory or the directory of the install
\* directories, or lies in the install directory of the name, in the
\* applications directory or in the icon theme directory.
InsideDataDir(p, name) ==
    \/ p \in {DataDirPath, InstallRootPath}
    \/ IsPrefix(InstallDirPath(Sanitized(name)), p)
    \/ IsPrefix(ApplicationsPath, p)
    \/ IsPrefix(ThemePath, p)

\* C29: every path install writes to and every path uninstall deletes lies
\* inside the data directory, under deno-installed-apps/<sanitized name>,
\* applications or icons/hicolor/scalable/apps, for every name, id and icon of
\* the metadata, also for ids and icon file names with separators or "..".
C29_WritesAndDeletesStayInside ==
    [][/\ last'.cmd = "install"
          => \A p \in Touched(PlaceProjectWith(fs, last'.metadata), fs') :
                InsideDataDir(p, last'.metadata["name"])
       /\ last'.cmd = "uninstall"
          => \A p \in Touched(fs, fs') : InsideDataDir(p, last'.arg)]_vars

\* C29 for metadata whose id and icon name hold no separator: install and
\* uninstall touch nothing outside.
NoSeparator(metadata) ==
    \A k \in DOMAIN metadata \cap {"id", "icon"} :
        \A i \in 1..Len(metadata[k]) : metadata[k][i] # "/"
C29_PlainNamesStayInside ==
    [][(last'.cmd = "install" /\ NoSeparator(last'.metadata))
        => \A p \in Touched(PlaceProjectWith(fs, last'.metadata), fs') :
              InsideDataDir(p, last'.metadata["name"])]_vars

\* The install before was a successful one of the same name, and this one
\* finds no executable in the project.
InstallWithoutExecutable(l) ==
    /\ last.cmd = "install" /\ exit = 0
    /\ l.cmd = "install" /\ ~l.project.executable /\ l.project.installJson.t = "json"
    /\ l.metadata["name"] = last.metadata["name"]

\* C30: an install that fails because the source executable does not exist
\* leaves a completed installation of the same app intact: its executable,
\* metadata.json, icon and launcher, and all of the data directory, are
\* unchanged.
C30_MissingExecutableLeavesInstallation ==
    [][InstallWithoutExecutable(last')
        => /\ exit' = 1
           /\ \E l \in Range(err') : l.msg = "renameSync"
           /\ \A p \in EntityPaths(fs, last.metadata) : p \in DOMAIN fs' /\ fs'[p] = fs[p]
           /\ DataDirState(fs') = DataDirState(fs)]_vars

\* After an install with an id, an install of the same name without an id
\* has failed for want of the executable, and the launcher, the system icon
\* and metadata.json of the first are there.
C30_Witness ==
    /\ last.cmd = "install" /\ ~last.project.executable /\ exit = 1
    /\ prev.inv.cmd = "install" /\ prev.exit = 0
    /\ prev.inv.metadata["name"] = last.metadata["name"]
    /\ "id" \in DOMAIN prev.inv.metadata /\ "id" \notin DOMAIN last.metadata
    /\ EntityPaths(fs, prev.inv.metadata) \subseteq DOMAIN fs
    /\ StoredId(fs, Sanitized(last.metadata["name"])) = prev.inv.metadata["id"]

====
